---- MODULE Spec2Model ----
(***************************************************************************)
(* Quota ledger and payment reconciliation of the dream-interpretation     *)
(* backend: POST /dreams (routes/dreams.ts), the plans router              *)
(* (routes/plans.ts), POST /payments/create-checkout-session and           *)
(* POST /payments/webhook (routes/payments.ts), over the tables profiles,  *)
(* plans, user_plans, dreams and payments; registration, the deletion of   *)
(* an account and the role of a profile (routes/auth.ts, routes/admin.ts,  *)
(* routes/profile.ts); the interpreter of a dream or a request, messages   *)
(* and chat (routes/dreams.ts, routes/requests.ts, routes/messages.ts,     *)
(* routes/chat.ts); the token check of the content routes and the comments *)
(* (middleware/auth.ts, routes/comments.ts); the voice recordings; the     *)
(* scripts create-trial-plan.ts and addFreePlan.                           *)
(*                                                                         *)
(* Time is counted in milliseconds, as Date.now() counts it; a day that    *)
(* Date.setDate adds is 24 hours.  A JavaScript string is a sequence of    *)
(* UTF-16 code units: in a description "b" is a BMP unit, "h" a high       *)
(* surrogate, "l" a low surrogate; a data URL is the sequence of its       *)
(* characters.                                                             *)
(*                                                                         *)
(* A handler is split at its awaits.  One step of a handler is the effect  *)
(* of one awaited operation followed by the statements up to the next      *)
(* await; the first step starts with the statements before the first       *)
(* await.  The statements of a prisma.$transaction become visible at its   *)
(* commit.  A handler with a single awaited operation is one step.         *)
(***************************************************************************)
EXTENDS Integers, Sequences, FiniteSets, Bags, TLC

VARIABLES
  now,        \* the clock read by new Date(), Date.now() and CURRENT_TIMESTAMP
  stripe,     \* whether lib/stripe.ts built a Stripe client from STRIPE_SECRET_KEY
  generated,  \* per table with a generated primary key: how many ids were generated
  profiles,   \* tables users and profiles (one row each per account): userId -> the row
  plans,      \* table plans: a set of rows
  userPlans,  \* table user_plans: a set of rows, unique per (userId, planId)
  dreams,     \* table dreams: the bag of rows (the generated id left out where no route addresses a dream by it)
  payments,   \* table payments: the bag of rows (the generated ids left out)
  sessions,   \* Stripe checkout sessions: index of SessionIds -> the session, if created
  req,        \* handlers and scripts in flight: slot -> frame
  resp,       \* the response to the request answered last: [status, code]; none once a request is taken up
  call,       \* the request answered last: its requester (NoId when it carried no
              \* token) and what it asked for
  ledger,     \* history: per user_plans row, the bag of descriptions debited since its last activation
  tokens,     \* the payloads of the tokens issued by register and login
  requests,   \* table requests: a set of rows
  messages,   \* table messages: a set of rows
  chatMessages, \* table chat_messages: a set of rows
  comments,   \* table comments: a set of rows
  uploads     \* the files of public/uploads/audio: a set of file names

accountVars == <<tokens, plans>>
contentVars == <<requests, messages, chatMessages, comments, uploads>>

vars == <<now, stripe, generated, profiles, plans, userPlans, dreams, payments,
          sessions, req, resp, call, ledger, tokens, requests, messages,
          chatMessages, comments, uploads>>

\* everything a step that only reads leaves alone
storedVars == <<now, stripe, generated, profiles, userPlans, dreams, payments,
                sessions, ledger, accountVars, contentVars>>

----------------------------------------------------------------------------
(* Bounds of the model *)

\* MaxTime is in days, MaxMillis in milliseconds within a day
MaxTime == 2
MaxMillis == 1
MaxDreamRows == 3
MaxPaymentRows == 2
MaxActivations == 3
MaxMessageRows == 1
MaxChatRows == 1
MaxCommentRows == 1
MaxRequestRows == 2

----------------------------------------------------------------------------
(* Data *)

NULL == -1          \* SQL NULL in an integer or datetime column

\* the milliseconds of a day
Day == 24 * 60 * 60 * 1000
NoId == "null"      \* SQL NULL in an id column

\* a field the body of a request does not carry
Undefined == "undefined"

Users == {"u1", "u2", "u3", "u4"}
PlanIds == {"p1", "p2"}
SessionIds == << <<"cs", 123>> >>
ReqIds == {"r1", "r2"}

\* the ids generated for the users created by registration, in order
NewUserIds == <<"u5">>
AccountIds == Users \cup {NewUserIds[i] : i \in DOMAIN NewUserIds}

\* the ids generated for the plans created by POST /plans, by the scripts
\* and by the seed, in order
NewPlanIds == <<"p3", "p4">>
StoredPlanIds == PlanIds \cup {NewPlanIds[i] : i \in DOMAIN NewPlanIds}

\* the role of each seeded profile
SeededEmail == [u1 |-> "e1", u2 |-> "e2", u3 |-> "e3", u4 |-> "e4"]

SeededRole ==
  [u1 |-> "dreamer", u2 |-> "interpreter", u3 |-> "admin", u4 |-> "super_admin"]

\* a row of the table profiles as registration and the seed create it
ProfileRow(email, fullName, role) ==
  [email |-> email, fullName |-> fullName, role |-> role,
   currentPlanId |-> NoId, isAvailable |-> TRUE, totalInterpretations |-> 0,
   rating |-> 0]

SeededProfiles ==
  [u \in Users |-> ProfileRow(SeededEmail[u], "seeded", SeededRole[u])]

\* the quotas of the seeded plans
Plans ==
  [ p1 |-> [letterQuota |-> 10, audioMinutesQuota |-> 3, maxDreams |-> 2,
            durationDays |-> 3, isActive |-> TRUE],
    p2 |-> [letterQuota |-> NULL, audioMinutesQuota |-> NULL, maxDreams |-> NULL,
            durationDays |-> 1, isActive |-> TRUE] ]

\* a row of the table plans: is_trial defaults to false, trial_duration_days
\* to NULL
PlanRow(id, name, columns, createdAt) ==
  [id |-> id, name |-> name, isTrial |-> FALSE, trialDurationDays |-> NULL,
   createdAt |-> createdAt] @@ columns

\* the rows of the table plans after the seed
SeededPlans == {PlanRow(id, id, Plans[id], 0) : id \in DOMAIN Plans}

\* bodies of the POST /dreams requests; audioMinutes is in half minutes
\* (3 is 1.5 minutes)
Body(title, description, audioMinutes) ==
  [title |-> title, description |-> description, audioMinutes |-> audioMinutes]
FiveLetters == <<"b", "h", "l", "b", "b", "b">>
SevenLetters == <<"b", "b", "b", "b", "b", "b", "b">>
Bodies ==
  { Body(<<>>, SevenLetters, 0),
    Body(<<"b">>, <<>>, 0),
    Body(<<"b">>, SevenLetters, 0),
    Body(<<"b">>, FiveLetters, 0),
    Body(<<"b">>, FiveLetters, 3) }
\* (userId, planId) of the POST /plans/subscribe requests
SubscribeInputs == {<<"u1", "p1">>, <<"u1", "p2">>}
\* (userId, planId) of the POST /payments/create-checkout-session requests
CheckoutInputs == {<<"u1", "p1">>}

----------------------------------------------------------------------------
(* Pure functions *)

RECURSIVE ArrayFrom(_)
\* Array.from(string): the string iterator yields one element per code point,
\* a high surrogate followed by a low surrogate being one element
ArrayFrom(s) ==
  IF s = <<>> THEN <<>>
  ELSE IF Len(s) >= 2 /\ s[1] = "h" /\ s[2] = "l"
       THEN <<SubSeq(s, 1, 2)>> \o ArrayFrom(SubSeq(s, 3, Len(s)))
       ELSE <<SubSeq(s, 1, 1)>> \o ArrayFrom(Tail(s))

countContentLetters_units(content) == Len(content)

countContentLetters(content) ==
  IF content = <<>> THEN 0 ELSE Len(ArrayFrom(content))

\* Math.ceil(Number(audioMinutes)) of a non-negative number of half minutes
MathCeil(halfMinutes) == (halfMinutes + 1) \div 2

audioMinutesRequestedOf(audioMinutes) ==
  IF audioMinutes # 0 THEN MathCeil(audioMinutes) ELSE 0

Digits == <<"0", "1", "2", "3", "4", "5", "6", "7", "8", "9">>

RECURSIVE NumberToString(_)
\* Number.prototype.toString() of a non-negative integer
NumberToString(n) ==
  IF n < 10 THEN <<Digits[n + 1]>>
  ELSE NumberToString(n \div 10) \o <<Digits[(n % 10) + 1]>>

DigitValue(c) == (CHOOSE i \in 1..10 : Digits[i] = c) - 1

RECURSIVE ParseIntFrom(_, _)
ParseIntFrom(s, acc) ==
  IF s = <<>> THEN acc
  ELSE ParseIntFrom(Tail(s), acc * 10 + DigitValue(Head(s)))

\* parseInt(string) of a string of decimal digits
ParseInt(s) == ParseIntFrom(s, 0)

\* a JavaScript number, a double, as the decimal that Number::toString
\* writes for it: sign * 0.d1 d2 ... dn * 10^point with d1 and dn not 0; zero
\* has sign 0 and no digits, an infinity its sign and no digits
Decimal(sign, digits, point) ==
  [sign |-> sign, digits |-> digits, point |-> point]
Zero == Decimal(0, <<>>, 0)
Infinity(sign) == Decimal(sign, <<>>, 0)
isFinite(x) == x.sign = 0 \/ x.digits # <<>>

\* the length of the longest prefix of a sequence whose elements are in a set
RunLength(s, set) ==
  CHOOSE n \in 0..Len(s) :
    /\ \A i \in 1..n : s[i] \in set
    /\ n = Len(s) \/ s[n + 1] \notin set

\* the length of the longest suffix of a sequence whose elements are in a set
RunLengthAtEnd(s, set) ==
  CHOOSE n \in 0..Len(s) :
    /\ \A i \in (Len(s) - n + 1)..Len(s) : s[i] \in set
    /\ n = Len(s) \/ s[Len(s) - n] \notin set

\* the order of two sequences of digits of one length
DigitsAtMost(a, b) ==
  \/ a = b
  \/ \E i \in DOMAIN a : a[i] < b[i] /\ \A j \in 1..(i - 1) : a[j] = b[j]

\* a sequence of digits cut or filled with zeros to a length
DigitsTo(digits, length) ==
  [i \in 1..length |-> IF i <= Len(digits) THEN digits[i] ELSE 0]

\* a number without the leading and trailing zeros of its digits
Strip(sign, digits, point) ==
  LET leading == RunLength(digits, {0})
      kept == SubSeq(digits, leading + 1,
                     Len(digits) - RunLengthAtEnd(digits, {0}))
  IN  IF leading = Len(digits) THEN Zero
      ELSE Decimal(sign, kept, point - leading)

RECURSIVE IntegerDigits(_)
\* the digits of a non-negative integer, none for 0
IntegerDigits(n) ==
  IF n = 0 THEN <<>> ELSE IntegerDigits(n \div 10) \o <<n % 10>>

RECURSIVE Product(_, _, _)
\* digits * k + carry: as many digits of its end as there are digits, and
\* the integer before them.  The carry into the first half of the digits is
\* what the second half leaves
Product(digits, k, carry) ==
  IF carry = 0 /\ \A i \in DOMAIN digits : digits[i] = 0
    THEN [carry |-> 0, digits |-> digits]
  ELSE IF digits = <<>> THEN [carry |-> carry, digits |-> <<>>]
  ELSE IF Len(digits) = 1
    THEN [carry |-> (digits[1] * k + carry) \div 10,
          digits |-> <<(digits[1] * k + carry) % 10>>]
  ELSE LET half == Len(digits) \div 2
           low == Product(SubSeq(digits, half + 1, Len(digits)), k, carry)
           high == Product(SubSeq(digits, 1, half), k, low.carry)
       IN  [carry |-> high.carry, digits |-> high.digits \o low.digits]

\* the digits of digits * k + carry
Joined(product) == IntegerDigits(product.carry) \o product.digits
MulAdd(digits, k, carry) == Joined(Product(digits, k, carry))

RECURSIVE Times(_, _, _, _)
\* the digits of digits * base^n, multiplied by base^step at a time
Times(digits, base, step, n) ==
  IF digits = <<>> \/ n = 0 THEN digits
  ELSE Times(MulAdd(digits, base ^ (IF n < step THEN n ELSE step), 0),
             base, step, IF n < step THEN 0 ELSE n - step)

\* the digits of m * 2^q as an integer times a power of ten: 2^-1 is 5 / 10,
\* and 2^27 and 5^11 are the powers a digit can be multiplied by in 32 bits
Binary(m, q) ==
  [digits |-> Times(m, IF q >= 0 THEN 2 ELSE 5, IF q >= 0 THEN 27 ELSE 11,
                    IF q >= 0 THEN q ELSE -q),
   exponent |-> IF q >= 0 THEN 0 ELSE q]

\* the digits of an integer less one
Pred(digits) ==
  LET last == Len(digits) - RunLengthAtEnd(digits, {0})
  IN  [i \in DOMAIN digits |->
         IF i < last THEN digits[i] ELSE IF i = last THEN digits[i] - 1 ELSE 9]

\* the order of two integers in digits without leading zeros
Less(a, b) ==
  \/ Len(a) < Len(b)
  \/ Len(a) = Len(b) /\ a # b /\ DigitsAtMost(a, b)

\* the order of two positive numbers
Below(x, y) ==
  LET length == IF Len(x.digits) > Len(y.digits) THEN Len(x.digits)
                ELSE Len(y.digits)
  IN  \/ x.point < y.point
      \/ x.point = y.point
         /\ Less(DigitsTo(x.digits, length), DigitsTo(y.digits, length))

\* the integer part of digits * 10^exponent
Whole(s) ==
  IF Len(s.digits) + s.exponent <= 0 THEN <<>>
  ELSE DigitsTo(s.digits, Len(s.digits) + s.exponent)

\* the fraction of digits * 10^exponent against a half: -1 is less, 0 equal
\* and 1 more
Half(s) ==
  LET at == Len(s.digits) + s.exponent + 1
  IN  IF at < 1 \/ at > Len(s.digits) \/ s.digits[at] < 5 THEN -1
      ELSE IF s.digits[at] > 5 THEN 1
      ELSE IF \A i \in (at + 1)..Len(s.digits) : s.digits[i] = 0 THEN 0
      ELSE 1

\* a double is significand * 2^exponent with a significand below 2^53, and
\* from 2^52 on unless the exponent is the least, -1074
Significand == 53
MinExponent == -1074
MaxExponent == 971
TwoTo(n) == Times(<<1>>, 2, 27, n)

\* x / 2^q
Shifted(s, exponent) ==
  [digits |-> s.digits, exponent |-> s.exponent + exponent]
Scaled(x, q) == Shifted(Binary(x.digits, -q), x.point - Len(x.digits))

RECURSIVE BinaryExponent(_, _)
\* the exponent of the double of x: the least one from q on that leaves a
\* significand below 2^53
BinaryExponent(x, q) ==
  IF Less(Whole(Scaled(x, q)), TwoTo(Significand)) THEN q
  ELSE BinaryExponent(x, q + 1)

\* an exponent at most that of the double of x, which is from 10^(point - 1)
\* on: 3322 / 1000 is the logarithm of 10 to the base 2 within 1 / 10000
LeastExponent(x) ==
  LET q == ((x.point - 1) * 3322) \div 1000 - Significand
  IN  IF q < MinExponent THEN MinExponent ELSE q

\* x / 2^q rounded to an integer, a half to the even one
HalfEven(whole, half) ==
  IF \/ half > 0
     \/ half = 0 /\ whole # <<>> /\ whole[Len(whole)] % 2 = 1
    THEN MulAdd(whole, 1, 1)
  ELSE whole
Round(s) == HalfEven(Whole(s), Half(s))
RoundedTo(x, q) == Round(Scaled(x, q))

\* the double nearest to a positive number, a tie to the even significand
Double(significand, exponent) ==
  [significand |-> significand, exponent |-> exponent]
Rounded(significand, q) ==
  IF significand = TwoTo(Significand)
    THEN Double(TwoTo(Significand - 1), q + 1)
  ELSE Double(significand, q)
NearestAt(x, q) == Rounded(RoundedTo(x, q), q)
Nearest(x) == NearestAt(x, BinaryExponent(x, LeastExponent(x)))

\* the number m * 2^q
Valued(s) == Strip(1, s.digits, Len(s.digits) + s.exponent)
Exact(m, q) == Valued(Binary(m, q))

\* the numbers that round to a double are those between the middles to its
\* neighbours, the middles themselves when the significand is even; the
\* neighbour below 2^52 * 2^q is half as far
Upper(d) == Exact(MulAdd(d.significand, 2, 1), d.exponent - 1)
Lower(d) ==
  IF d.significand = TwoTo(Significand - 1) /\ d.exponent > MinExponent
    THEN Exact(MulAdd(Pred(d.significand), 4, 3), d.exponent - 2)
  ELSE Exact(MulAdd(Pred(d.significand), 2, 1), d.exponent - 1)
RoundsTo(d, lower, upper, x) ==
  IF d.significand[Len(d.significand)] % 2 = 0
    THEN ~Below(x, lower) /\ ~Below(upper, x)
  ELSE Below(lower, x) /\ Below(x, upper)

\* the two numbers of k digits around a number of more digits, and which of
\* them is the nearer, the one of the even digit when they are as near
Down(x, k) == Strip(1, DigitsTo(x.digits, k), x.point)
Ending(digits, end) == Strip(1, digits, end + Len(digits))
Up(x, k) == Ending(MulAdd(DigitsTo(x.digits, k), 1, 1), x.point - k)
DownIsNearer(x, k) ==
  LET middle == Decimal(1, DigitsTo(x.digits, k) \o <<5>>, x.point)
  IN  Below(x, middle) \/ (x = middle /\ x.digits[k] % 2 = 0)

RECURSIVE Shortest(_, _, _, _, _)
RECURSIVE Nearer(_, _, _, _, _, _, _)
\* Number::toString: the number of the fewest digits that rounds to the
\* double, the nearest to it of those
Shortest(d, exact, lower, upper, k) ==
  IF k >= Len(exact.digits) THEN exact
  ELSE Nearer(d, exact, lower, upper, k, Down(exact, k), Up(exact, k))
Nearer(d, exact, lower, upper, k, down, up) ==
  IF RoundsTo(d, lower, upper, down)
    THEN (IF RoundsTo(d, lower, upper, up) /\ ~DownIsNearer(exact, k) THEN up
          ELSE down)
  ELSE IF RoundsTo(d, lower, upper, up) THEN up
  ELSE Shortest(d, exact, lower, upper, k + 1)

\* a double as the decimal that Number::toString writes for it, which is
\* the decimal that reads back as the double
Signed(sign, x) == Decimal(sign, x.digits, x.point)
DecimalOf(sign, d) ==
  IF d.significand = <<>> THEN Zero
  ELSE IF d.exponent > MaxExponent THEN Infinity(sign)
  ELSE Signed(sign, Shortest(d, Exact(d.significand, d.exponent),
                             Lower(d), Upper(d), 1))

\* the Number value of sign * 0.digits * 10^point: the nearest double, an
\* infinity beyond the largest double (every number from 10^309 on is),
\* zero up to half the smallest (every number below 10^-324 is)
NumberOf(x) ==
  IF x.sign = 0 THEN Zero
  ELSE IF x.point > 309 THEN Infinity(x.sign)
  ELSE IF x.point < -323 THEN Zero
  ELSE DecimalOf(x.sign, Nearest(x))
Normalise(sign, digits, point) == NumberOf(Strip(sign, digits, point))

\* the number of an integer over a power of ten
Over(sign, digits, places) == Normalise(sign, digits, Len(digits) - places)
Integer(n) ==
  Over(IF n < 0 THEN -1 ELSE 1, IntegerDigits(IF n < 0 THEN -n ELSE n), 0)

\* the number n / 100 of an integer n
Hundredths(n) ==
  Over(IF n < 0 THEN -1 ELSE 1, IntegerDigits(IF n < 0 THEN -n ELSE n), 2)

\* StrWhiteSpaceChar: the white space and the line terminators that
\* Number(string) strips from both ends, a character beyond the escapes of a
\* string written as its code point
StrWhiteSpace ==
  {" ", "\t", "\n", "\r", "\f", "U+000B", "U+00A0", "U+FEFF", "U+1680",
   "U+2000", "U+2001", "U+2002", "U+2003", "U+2004", "U+2005", "U+2006",
   "U+2007", "U+2008", "U+2009", "U+200A", "U+2028", "U+2029", "U+202F",
   "U+205F", "U+3000"}

\* the digits of the literals of radix 16, 8 and 2
RadixDigits ==
  <<"0", "1", "2", "3", "4", "5", "6", "7", "8", "9", "a", "b", "c", "d",
    "e", "f">>
UpperDigits == <<"A", "B", "C", "D", "E", "F">>
RadixOf(c) ==
  CASE c \in {"x", "X"} -> 16 [] c \in {"o", "O"} -> 8
    [] c \in {"b", "B"} -> 2 [] OTHER -> 0
RadixValue(c) ==
  IF \E i \in DOMAIN UpperDigits : UpperDigits[i] = c
    THEN 9 + (CHOOSE i \in DOMAIN UpperDigits : UpperDigits[i] = c)
  ELSE IF \E i \in DOMAIN RadixDigits : RadixDigits[i] = c
    THEN (CHOOSE i \in DOMAIN RadixDigits : RadixDigits[i] = c) - 1
  ELSE 16

RECURSIVE RadixFrom(_, _, _)
\* the decimal digits of a literal of a radix, digit by digit
RadixFrom(s, radix, acc) ==
  IF s = <<>> THEN acc
  ELSE RadixFrom(Tail(s), radix, MulAdd(acc, radix, RadixValue(Head(s))))

\* the decimal digits as characters
DecimalDigits == {Digits[i] : i \in DOMAIN Digits}

\* a string without the white space at its ends
Trim(chars) ==
  SubSeq(chars, RunLength(chars, StrWhiteSpace) + 1,
         Len(chars) - RunLengthAtEnd(chars, StrWhiteSpace))

\* the mantissa at the head of a decimal literal: how many digits before and
\* after its point, those digits, and what follows them
Mantissa(literal) ==
  LET whole == RunLength(literal, DecimalDigits)
      pointed == whole < Len(literal) /\ literal[whole + 1] = "."
      from == IF pointed THEN whole + 2 ELSE whole + 1
      fraction == IF pointed
                    THEN RunLength(SubSeq(literal, from, Len(literal)),
                                   DecimalDigits)
                  ELSE 0
  IN  [whole |-> whole,
       digits |-> [i \in 1..(whole + fraction) |->
                     DigitValue(IF i <= whole THEN literal[i]
                                ELSE literal[i + 1])],
       rest |-> SubSeq(literal, from + fraction, Len(literal))]

\* the exponent a decimal literal ends with: none is 0, e or E with an
\* optional sign and digits is their value, anything else is no literal; an
\* exponent of ten digits or more is beyond what the digits of a string,
\* fewer than 2^30, make up for
Exponent(rest) ==
  LET signed == Len(rest) >= 2 /\ rest[2] \in {"+", "-"}
      digits == SubSeq(rest, IF signed THEN 3 ELSE 2, Len(rest))
      significant == SubSeq(digits, RunLength(digits, {"0"}) + 1, Len(digits))
      magnitude == IF Len(significant) > 9 THEN 1000000000
                   ELSE ParseInt(significant)
  IN  IF rest = <<>> THEN {0}
      ELSE IF \/ rest[1] \notin {"e", "E"}
              \/ digits = <<>>
              \/ \E i \in DOMAIN digits : digits[i] \notin DecimalDigits
        THEN {}
      ELSE {IF signed /\ rest[2] = "-" THEN -magnitude ELSE magnitude}

\* a literal 0x, 0o or 0b: its value, or NaN when a digit is none of the radix
RadixLiteral(text) ==
  LET radix == RadixOf(text[2])
      digits == SubSeq(text, 3, Len(text))
  IN  IF /\ digits # <<>>
         /\ \A i \in DOMAIN digits : RadixValue(digits[i]) < radix
        THEN {Over(1, RadixFrom(digits, radix, <<>>), 0)}
      ELSE {}

\* an optional sign before Infinity or before a decimal literal: digits, an
\* optional point and digits, an optional exponent
SignedLiteral(text) ==
  LET signed == text[1] \in {"+", "-"}
      sign == IF text[1] = "-" THEN -1 ELSE 1
      literal == IF signed THEN Tail(text) ELSE text
      mantissa == Mantissa(literal)
  IN  IF literal = <<"I", "n", "f", "i", "n", "i", "t", "y">>
        THEN {Infinity(sign)}
      ELSE IF mantissa.digits = <<>> THEN {}
      ELSE {Normalise(sign, mantissa.digits, mantissa.whole + exponent) :
              exponent \in Exponent(mantissa.rest)}

\* StringToNumber: Number(string).  The white space at both ends is
\* stripped; what is left is empty (0), a literal 0x, 0o or 0b without a
\* sign, or a signed literal; anything else is NaN, the empty set.  The
\* value is the double nearest to what the literal writes
StringToNumber(chars) ==
  LET text == Trim(chars)
  IN  IF text = <<>> THEN {Zero}
      ELSE IF Len(text) >= 2 /\ text[1] = "0" /\ RadixOf(text[2]) # 0
        THEN RadixLiteral(text)
      ELSE SignedLiteral(text)

\* Number(value) of a JSON value, empty for NaN: a number is itself, true is
\* 1 and false 0, a string is StringToNumber, null is 0, an array [] is
\* Number('') and an object {} is Number('[object Object]')
ToNumber(v) ==
  CASE v.typeof = "number" -> {v.value}
    [] v.typeof = "boolean" -> {IF v.value THEN Integer(1) ELSE Zero}
    [] v.typeof = "string" -> StringToNumber(v.value)
    [] v.value = "{}" -> {}
    [] OTHER -> {Zero}

\* Math.floor: an integer and an infinity are themselves, a positive number
\* loses its fraction, a negative number with a fraction goes one down
MathFloor(x) ==
  LET whole == IF x.point <= 0 THEN <<>>
               ELSE SubSeq(x.digits, 1, x.point)
  IN  IF ~isFinite(x) \/ x.point >= Len(x.digits) THEN x
      ELSE Over(x.sign, IF x.sign > 0 THEN whole ELSE MulAdd(whole, 1, 1), 0)

\* the largest INT of the database, 2^31 - 1, in digits
MaxIntDigits == <<2, 1, 4, 7, 4, 8, 3, 6, 4, 7>>

RECURSIVE IntegerFrom(_, _)
IntegerFrom(digits, acc) ==
  IF digits = <<>> THEN acc
  ELSE IntegerFrom(Tail(digits), acc * 10 + Head(digits))

\* a number without fraction written to an INT column: its value, or none
\* when the column refuses it (an infinity, a number beyond 32 bits)
IntColumn(x) ==
  LET length == Len(MaxIntDigits)
  IN  IF ~isFinite(x) \/ x.point > length THEN {}
      ELSE IF x.point = length
              /\ ~DigitsAtMost(DigitsTo(x.digits, length), MaxIntDigits)
        THEN {}
      ELSE {x.sign * IntegerFrom(DigitsTo(x.digits, x.point), 0)}

\* a number written to a DECIMAL(3, 2) column, in hundredths: rounded to two
\* places, half away from zero, or none when the column refuses it (an
\* infinity, a number that rounds beyond 9.99)
DecimalColumn(x) ==
  LET places == x.point + 2
      whole == IF places <= 0 THEN 0
               ELSE IntegerFrom(DigitsTo(x.digits, places), 0)
      next == IF places < 0 \/ places >= Len(x.digits) THEN 0
              ELSE x.digits[places + 1]
      rounded == IF next >= 5 THEN whole + 1 ELSE whole
  IN  IF x.sign = 0 THEN {0}
      ELSE IF x.digits = <<>> \/ x.point > 1 THEN {}
      ELSE IF rounded > 999 THEN {}
      ELSE {x.sign * rounded}

\* a field of a body
Has(body, field) == field \in DOMAIN body

\* a field of a body that the handler takes as supplied: if (field) is false
\* of a field that is absent or the empty string
Given(body, field) == Has(body, field) /\ body[field] # ""

\* a JavaScript number in a condition: null, undefined and 0 are false
Truthy(n) == n # NULL /\ n # 0

\* Number(value) of a number or of null: Number(null) is 0
Number(n) == IF n = NULL THEN 0 ELSE n

\* a value of a JSON body whose type the handler examines: typeof and the value
Json(type, value) == [typeof |-> type, value |-> value]
JsonString(chars) == Json("string", chars)
JsonNumber(n) == Json("number", n)
JsonBoolean(b) == Json("boolean", b)
\* the values whose typeof is "object": null, the object {} and the array []
JsonNull == Json("object", "null")
JsonObject == Json("object", "{}")
JsonArray == Json("object", "[]")

\* value === null
IsNull(v) == v.typeof = "object" /\ v.value = "null"

\* a JSON value in a condition: the empty string, 0, false and null are
\* false, an object and an array are true
JsonTruthy(v) ==
  CASE v.typeof = "string" -> v.value # <<>>
    [] v.typeof = "number" -> v.value.sign # 0
    [] v.typeof = "boolean" -> v.value
    [] OTHER -> v.value # "null"

\* String.prototype.startsWith
startsWith(s, prefix) ==
  Len(s) >= Len(prefix) /\ SubSeq(s, 1, Len(prefix)) = prefix

\* the characters of 'data:audio' and of ';base64,'
DataAudio == <<"d", "a", "t", "a", ":", "a", "u", "d", "i", "o">>
Base64Marker == <<";", "b", "a", "s", "e", "6", "4", ",">>

\* the class \w of a regular expression: letters, digits and the underscore
WordCharacters ==
  {"a", "b", "c", "d", "e", "f", "g", "h", "i", "j", "k", "l", "m", "n", "o",
   "p", "q", "r", "s", "t", "u", "v", "w", "x", "y", "z",
   "A", "B", "C", "D", "E", "F", "G", "H", "I", "J", "K", "L", "M", "N", "O",
   "P", "Q", "R", "S", "T", "U", "V", "W", "X", "Y", "Z",
   "0", "1", "2", "3", "4", "5", "6", "7", "8", "9", "_"}

\* the characters the class . of a regular expression does not match: line
\* feed, carriage return, line separator and paragraph separator
LineTerminators == {"\n", "\r", "U+2028", "U+2029"}

RECURSIVE WordRun(_)
\* the length of the longest prefix of word characters
WordRun(s) ==
  IF s = <<>> \/ Head(s) \notin WordCharacters THEN 0
  ELSE 1 + WordRun(Tail(s))

\* a data URL "data:<type>/<subtype>;<encoding>,<data>", each part a sequence
\* of characters
DataUrl(type, subtype, encoding, data) ==
  <<"d", "a", "t", "a", ":">> \o type \o <<"/">> \o subtype \o <<";">>
    \o encoding \o <<",">> \o data

\* audio.startsWith('data:audio')
startsWithDataAudio(audio) == startsWith(audio, DataAudio)

\* audio.match(/^data:audio\/(\w+);base64,(.+)$/): the match with its two
\* groups, empty when match returns null.  \w+ takes the longest run of word
\* characters, and ';' is none, so the run must end where ';base64,' starts
matchesAudio(audio) ==
  LET head == DataAudio \o <<"/">>
      rest == SubSeq(audio, Len(head) + 1, Len(audio))
      n == WordRun(rest)
      after == SubSeq(rest, n + 1, Len(rest))
      data == SubSeq(after, Len(Base64Marker) + 1, Len(after))
  IN  IF /\ startsWith(audio, head)
         /\ n > 0
         /\ startsWith(after, Base64Marker)
         /\ data # <<>>
         /\ \A i \in DOMAIN data : data[i] \notin LineTerminators
        THEN {[audioType |-> SubSeq(rest, 1, n), base64Data |-> data]}
      ELSE {}

\* `${prefix}${userId}-${Date.now()}.${audioType}` in public/uploads/audio
AudioFile(prefix, userId, at, audioType) ==
  [prefix |-> prefix, userId |-> userId, at |-> at, type |-> audioType]

----------------------------------------------------------------------------
(* Queries *)

IsUnexpired(row) == row.expiresAt = NULL \/ row.expiresAt > now

getActiveSubscription_ignoreExpiry(userId) ==
  LET qualifying == {s \in userPlans : s.userId = userId /\ s.isActive}
  IN  {s \in qualifying : \A o \in qualifying : o.startedAt <= s.startedAt}

\* prisma.userPlan.findFirst: the rows a findFirst ordered by startedAt desc
\* may return (several when startedAt ties), empty when it returns null
getActiveSubscription(userId) ==
  LET qualifying == {s \in userPlans :
                       s.userId = userId /\ s.isActive /\ IsUnexpired(s)}
  IN  {s \in qualifying : \A o \in qualifying : o.startedAt <= s.startedAt}

\* prisma.dream.count({dreamerId, createdAt >= startedAt})
dreamCount(userId, startedAt) ==
  LET matching == {d \in BagToSet(dreams) :
                     d.dreamerId = userId /\ d.createdAt >= startedAt}
  IN  BagCardinality([d \in matching |-> dreams[d]])

RowOf(userId, planId) ==
  {s \in userPlans : s.userId = userId /\ s.planId = planId}

\* prisma.plan.findUnique({ where: { id } }): the row, or none
PlanRows(id) == {p \in plans : p.id = id}

DreamRows(id) == {d \in BagToSet(dreams) : d.id = id}
RequestRows(id) == {q \in requests : q.id = id}
MessageRows(id) == {m \in messages : m.id = id}

\* prisma.profile.findUnique({ select: { role } }): profile?.role
RoleOf(userId) ==
  IF userId \in DOMAIN profiles THEN profiles[userId].role ELSE Undefined

\* the id generated for a new row of a table (@default(uuid())), named by its
\* place among the ids generated for the table: an id is never generated
\* twice, whether or not the row it was generated for is still stored
GeneratedId(table) == generated[table] + 1

\* the tables whose generated ids the routes address rows by
GeneratedNone ==
  [users |-> 0, plans |-> 0, requests |-> 0, messages |-> 0,
   chatMessages |-> 0, comments |-> 0]

\* Date.now()
DateNow == now

----------------------------------------------------------------------------
(* Responses and frames *)

Response(status, code) == [status |-> status, code |-> code]
NoResponse == Response(0, "NONE")

\* a request: who sent it and what it asked for, the route first
Route(route) == [route |-> route]
Call(userId, input) == [userId |-> userId, input |-> input]
NoCall == Call(NoId, Route(NoId))

\* the frame of a handler: where it stands, the requester, the request, and
\* what it has read and computed so far (found: the row a findUnique returned;
\* role: the role a profile lookup returned; data: values kept for a later
\* step); the other fields are those of POST /dreams
IdleFrame ==
  [pc |-> "idle", userId |-> NoId, input |-> Route(NoId), found |-> {},
   role |-> Undefined, data |-> {},
   title |-> <<>>, description |-> <<>>,
   letterCount |-> 0, audioMinutesRequested |-> 0, isAdmin |-> FALSE,
   subscription |-> {}, plan |-> {}, createdDream |-> {}]

Frame(pc, userId, input) ==
  [IdleFrame EXCEPT !.pc = pc, !.userId = userId, !.input = input]

\* res.status(status).json(...) to the requester
Answer(userId, input, status, code) ==
  /\ resp' = Response(status, code)
  /\ call' = Call(userId, input)

\* the handler answers before its first await returns control: no frame
Reject(userId, input, status, code) ==
  /\ Answer(userId, input, status, code)
  /\ UNCHANGED req

\* the handler is taken up and waits for its next awaited operation
Await(r, frame) ==
  /\ req' = [req EXCEPT ![r] = frame]
  /\ resp' = NoResponse
  /\ call' = NoCall

\* a handler in flight goes on to its next awaited operation
Proceed(r, frame) ==
  /\ req' = [req EXCEPT ![r] = frame]
  /\ UNCHANGED <<resp, call>>

\* the handler returns: the response is sent and the frame is released
Reply(r, status, code) ==
  /\ req' = [req EXCEPT ![r] = IdleFrame]
  /\ Answer(req[r].userId, req[r].input, status, code)

\* res.json(...) of a route whose response carries dreams with their content
\* (the dream itself, or dream: { content } included in a request): 200 and
\* the ids of those dreams
Disclose(userId, input, code, ids) ==
  /\ resp' = [status |-> 200, code |-> code, dreams |-> ids]
  /\ call' = Call(userId, input)

DiscloseReply(r, code, ids) ==
  /\ req' = [req EXCEPT ![r] = IdleFrame]
  /\ Disclose(req[r].userId, req[r].input, code, ids)

\* the handler of POST /dreams returns
Return(r, status, code) == Reply(r, status, code)

NoneInFlight == \A r \in ReqIds : req[r].pc = "idle"
InFlight == Cardinality({r \in ReqIds : req[r].pc # "idle"})
\* the handlers in flight that stand at one of the steps named
InFlightAt(pcs) == Cardinality({r \in ReqIds : req[r].pc \in pcs})

----------------------------------------------------------------------------
(* POST /dreams *)

IsAdminRole(role) == role = "admin" \/ role = "super_admin"

LetterQuotaExceeded_usedOnly(subscription, plan, letterCount) ==
  /\ plan.letterQuota # NULL
  /\ subscription.lettersUsed > plan.letterQuota

LetterQuotaExceeded(subscription, plan, letterCount) ==
  /\ plan.letterQuota # NULL
  /\ subscription.lettersUsed + letterCount > plan.letterQuota

AudioQuotaExceeded(subscription, plan, audioMinutesRequested) ==
  /\ audioMinutesRequested > 0
  /\ plan.audioMinutesQuota # NULL
  /\ subscription.audioMinutesUsed + audioMinutesRequested > plan.audioMinutesQuota

MaxDreamsReached_offByOne(count, plan) == count > plan.maxDreams

MaxDreamsReached(count, plan) == count >= plan.maxDreams

\* { increment: n } is UPDATE ... SET col = col + n on the stored value
Increment_stale(current, read, n) == read + n

Increment(current, read, n) == current + n

\* prisma.$transaction: when the callback throws, the writes made through tx
\* are discarded
TxRollback_autocommit(table, created) == table (+) SetToBag({created})

TxRollback(table, created) == table

\* validation of the body, then the profile lookup
PostDreamsBegin(r, userId, title, description, audioMinutes) ==
  /\ req[r].pc = "idle"
  /\ BagCardinality(dreams) + InFlight < MaxDreamRows
  /\ IF title = <<>> \/ description = <<>>
       THEN Reject(userId, Route("POST /dreams"), 400, "VALIDATION")
     ELSE IF userId \notin DOMAIN profiles
       THEN Reject(userId, Route("POST /dreams"), 404, "NOT_FOUND")
     ELSE LET isAdmin == IsAdminRole(profiles[userId].role)
          IN  Await(r, [Frame(IF isAdmin THEN "tx" ELSE "subscription",
                              userId, Route("POST /dreams")) EXCEPT
                          !.title = title,
                          !.description = description,
                          !.letterCount = countContentLetters(description),
                          !.audioMinutesRequested =
                             audioMinutesRequestedOf(audioMinutes),
                          !.isAdmin = isAdmin])
  /\ UNCHANGED storedVars

\* getActiveSubscription, which includes the plan of the row it returns, then
\* the letter and audio quota checks against that plan
ReadSubscription(r) ==
  /\ req[r].pc = "subscription"
  /\ LET found == getActiveSubscription(req[r].userId)
     IN  IF found = {}
           THEN Return(r, 402, "NO_ACTIVE_SUBSCRIPTION")
         ELSE \E subscription \in found :
           IF PlanRows(subscription.planId) = {}
             THEN Return(r, 402, "NO_ACTIVE_SUBSCRIPTION")
           ELSE \E plan \in PlanRows(subscription.planId) :
             IF LetterQuotaExceeded(subscription, plan, req[r].letterCount)
               THEN Return(r, 403, "QUOTA_EXCEEDED")
             ELSE IF AudioQuotaExceeded(subscription, plan,
                                        req[r].audioMinutesRequested)
               THEN Return(r, 403, "AUDIO_QUOTA_EXCEEDED")
             ELSE Proceed(r, [req[r] EXCEPT
                                !.subscription = {subscription},
                                !.plan = {plan},
                                !.pc = IF plan.maxDreams # NULL
                                         THEN "count" ELSE "tx"])
  /\ UNCHANGED storedVars

\* prisma.dream.count, then the max dreams check against the plan read with
\* the subscription
CountDreams(r) ==
  /\ req[r].pc = "count"
  /\ \E subscription \in req[r].subscription, plan \in req[r].plan :
       IF MaxDreamsReached(dreamCount(req[r].userId, subscription.startedAt),
                           plan)
         THEN Return(r, 403, "MAX_DREAMS_REACHED")
       ELSE Proceed(r, [req[r] EXCEPT !.pc = "tx"])
  /\ UNCHANGED storedVars

\* tx.dream.create inside prisma.$transaction; storageFails is a failure of
\* the write in the storage layer; the dreamer is a row of profiles (foreign
\* key)
TxDreamCreate(r, storageFails) ==
  /\ req[r].pc = "tx"
  /\ IF storageFails \/ req[r].userId \notin DOMAIN profiles
       THEN Return(r, 500, "INTERNAL")
     ELSE Proceed(r, [req[r] EXCEPT
            !.pc = "txUpdate",
            !.createdDream =
               {[dreamerId |-> req[r].userId, title |-> req[r].title,
                 content |-> req[r].description, status |-> "new",
                 interpreterId |-> NoId, interpretation |-> NoId,
                 notes |-> NoId, createdAt |-> now]}])
  /\ UNCHANGED storedVars

\* tx.userPlan.update({ where: { id: subscription.id } }), commit and 201;
\* subscription.id throws a TypeError when subscription is undefined
TxUsageUpdate(r, storageFails) ==
  /\ req[r].pc = "txUpdate"
  /\ \E createdDream \in req[r].createdDream :
       LET current == {s \in userPlans : \E read \in req[r].subscription :
                         s.userId = read.userId /\ s.planId = read.planId}
       IN  IF req[r].subscription = {} \/ storageFails \/ current = {}
             THEN /\ dreams' = TxRollback(dreams, createdDream)
                  /\ Return(r, 500, "INTERNAL")
                  /\ UNCHANGED <<userPlans, ledger>>
           ELSE \E row \in current, read \in req[r].subscription :
                  LET updated ==
                        [row EXCEPT
                           !.lettersUsed =
                              Increment(row.lettersUsed, read.lettersUsed,
                                        req[r].letterCount),
                           !.audioMinutesUsed =
                              IF req[r].audioMinutesRequested > 0
                                THEN Increment(row.audioMinutesUsed,
                                               read.audioMinutesUsed,
                                               req[r].audioMinutesRequested)
                                ELSE row.audioMinutesUsed]
                      key == <<row.userId, row.planId>>
                  IN  /\ dreams' = dreams (+) SetToBag({createdDream})
                      /\ userPlans' = (userPlans \ {row}) \cup {updated}
                      /\ ledger' = [ledger EXCEPT ![key] =
                                      @ (+) SetToBag({req[r].description})]
                      /\ Return(r, 201, "CREATED")
  /\ UNCHANGED <<now, stripe, generated, profiles, payments, sessions, accountVars, contentVars>>

----------------------------------------------------------------------------
(* Plans, subscriptions and payments *)

SubscriptionKeys == AccountIds \X StoredPlanIds

\* userPlan.upsert on the unique key (userId, planId); keepStartedAt is TRUE
\* when the update branch does not assign startedAt
Upsert(userId, planId, expiresAt, keepStartedAt) ==
  LET existing == RowOf(userId, planId)
      created == [userId |-> userId, planId |-> planId, startedAt |-> now,
                  expiresAt |-> expiresAt, isActive |-> TRUE,
                  lettersUsed |-> 0, audioMinutesUsed |-> 0]
  IN  IF existing = {}
        THEN userPlans \cup {created}
      ELSE (userPlans \ existing) \cup
           {[created EXCEPT !.startedAt =
                              IF keepStartedAt THEN row.startedAt ELSE now]
              : row \in existing}

PaymentRow(userId, planId, provider, reference) ==
  [userId |-> userId, planId |-> planId, status |-> "succeeded",
   provider |-> provider, reference |-> reference]

\* POST /plans/subscribe up to its transaction: the body, the plan lookup,
\* and the expiry computed from the plan as read
SubscribeBegin(r, userId, planId) ==
  LET input == [route |-> "POST /plans/subscribe", planId |-> planId]
  IN  /\ req[r].pc = "idle"
      /\ IF planId = Undefined
           THEN Reject(userId, input, 400, "PLAN_ID_REQUIRED")
         ELSE IF PlanRows(planId) = {}
           THEN Reject(userId, input, 404, "PLAN_NOT_FOUND")
         ELSE \E plan \in PlanRows(planId) :
           Await(r, [Frame("subscribe.transaction", userId, input) EXCEPT
                       !.found = {plan},
                       !.data = {now + plan.durationDays * Day}])
      /\ UNCHANGED storedVars

\* the transaction of POST /plans/subscribe: the upsert, whose update branch
\* leaves startedAt as it is, the profile and the payment; a failure of a
\* write, a profile that is gone or a plan that is gone rolls it back
SubscribeTransaction(r, storageFails) ==
  LET userId == req[r].userId
      planId == req[r].input.planId
  IN  /\ req[r].pc = "subscribe.transaction"
      /\ IF storageFails \/ userId \notin DOMAIN profiles
            \/ PlanRows(planId) = {}
           THEN /\ Reply(r, 500, "SUBSCRIBE_FAILED")
                /\ UNCHANGED <<userPlans, profiles, payments, ledger>>
         ELSE \E expiresAt \in req[r].data :
              /\ Reply(r, 200, "SUBSCRIBED")
              /\ userPlans' = Upsert(userId, planId, expiresAt, TRUE)
              /\ profiles' = [profiles EXCEPT ![userId].currentPlanId = planId]
              /\ payments' = payments (+)
                   SetToBag({PaymentRow(userId, planId, "manual", <<"SUB", DateNow>>)})
              /\ ledger' = [ledger EXCEPT ![<<userId, planId>>] = EmptyBag]
      /\ UNCHANGED <<now, stripe, generated, dreams, sessions, accountVars, contentVars>>

\* POST /payments/create-checkout-session up to the profile lookup: 503
\* without a Stripe client, then the body and the plan lookup
CreateCheckoutSessionBegin(r, userId, planId) ==
  LET input == [route |-> "POST /payments/create-checkout-session",
                planId |-> planId]
  IN  /\ req[r].pc = "idle"
      /\ IF ~stripe
           THEN Reject(userId, input, 503, "PAYMENTS_NOT_CONFIGURED")
         ELSE IF planId = Undefined
           THEN Reject(userId, input, 400, "PLAN_ID_REQUIRED")
         ELSE IF PlanRows(planId) = {}
           THEN Reject(userId, input, 404, "PLAN_NOT_FOUND")
         ELSE \E plan \in PlanRows(planId) :
           IF ~plan.isActive
             THEN Reject(userId, input, 400, "PLAN_NOT_AVAILABLE")
           ELSE /\ \E i \in DOMAIN SessionIds : sessions[i] = {}
                /\ InFlightAt({"checkout.profile", "checkout.create"}) = 0
                /\ Await(r, [Frame("checkout.profile", userId, input) EXCEPT
                               !.found = {plan}])
      /\ UNCHANGED storedVars

\* the profile lookup of a checkout in flight
CreateCheckoutSessionProfile(r) ==
  /\ req[r].pc = "checkout.profile"
  /\ IF req[r].userId \notin DOMAIN profiles
       THEN Reply(r, 404, "USER_NOT_FOUND")
     ELSE Proceed(r, [req[r] EXCEPT !.pc = "checkout.create"])
  /\ UNCHANGED storedVars

\* stripe.checkout.sessions.create with the metadata the webhook reads back,
\* taken from the plan as the handler read it
CreateCheckoutSessionCreate(r) ==
  /\ req[r].pc = "checkout.create"
  /\ \E plan \in req[r].found, i \in DOMAIN SessionIds :
       /\ sessions[i] = {}
       /\ \A j \in 1..(i - 1) : sessions[j] # {}
       /\ sessions' = [sessions EXCEPT ![i] =
            {[id |-> SessionIds[i],
              metadata |-> [userId |-> req[r].userId, planId |-> plan.id,
                            durationDays |->
                              NumberToString(plan.durationDays)]]}]
  /\ Reply(r, 200, "SESSION_CREATED")
  /\ UNCHANGED <<now, stripe, generated, profiles, userPlans, dreams, payments, ledger,
                 accountVars, contentVars>>

SignatureHeaders == {"missing", "invalid", "valid"}

\* the body of a request as Stripe sent it, and req.body once express.json
\* has parsed it: the object, no longer the bytes that were signed
RawBody(event) == [raw |-> TRUE, event |-> event]
expressJson(body) == [body EXCEPT !.raw = FALSE]

constructEvent_unverified(payload, sig) == TRUE

\* stripe.webhooks.constructEvent: an event only from the raw payload whose
\* header is its signature under the webhook secret; it throws otherwise
constructEvent(payload, sig) == payload.raw /\ sig = "valid"

EventTypes == {"checkout.session.completed", "payment_intent.payment_failed",
               "customer.created"}
\* (stripe-signature, event.type) of the POST /payments/webhook requests: every
\* type signed, and an activation unsigned or wrongly signed
WebhookEvents ==
  {<<"valid", type>> : type \in EventTypes}
    \cup {<<sig, "checkout.session.completed">> : sig \in SignatureHeaders}

\* POST /payments/webhook, mounted behind express.json: 503 without a Stripe
\* client, then the signature check on req.body, then the event by its type;
\* checkout.session.completed writes the payment, the subscription and the
\* profile in one transaction.  The events are those of the sessions created,
\* or of any session id while there is no client to create one
Webhook(sig, type, i, storageFails) ==
  /\ LET event == [route |-> "POST /payments/webhook", signature |-> sig,
                   type |-> type, session |-> SessionIds[i]]
         body == expressJson(RawBody(event))
     IN
     IF ~stripe
       THEN /\ Answer(NoId, event, 503, "PAYMENTS_NOT_CONFIGURED")
            /\ UNCHANGED <<userPlans, profiles, payments, ledger>>
     ELSE \E session \in sessions[i] :
       IF sig = "missing"
         THEN /\ Answer(NoId, event, 400, "NO_SIGNATURE")
              /\ UNCHANGED <<userPlans, profiles, payments, ledger>>
       ELSE IF ~constructEvent(body, sig)
         THEN /\ Answer(NoId, event, 400, "SIGNATURE_VERIFICATION_FAILED")
              /\ UNCHANGED <<userPlans, profiles, payments, ledger>>
       ELSE IF type = "checkout.session.completed"
         THEN LET userId == session.metadata.userId
                  planId == session.metadata.planId
                  expiresAt == now + ParseInt(session.metadata.durationDays) * Day
                  payment == PaymentRow(userId, planId, "stripe", session.id)
              IN  IF storageFails \/ userId \notin DOMAIN profiles
                     \/ PlanRows(planId) = {}
                    THEN /\ payments' = TxRollback(payments, payment)
                         /\ Answer(NoId, event, 500, "WEBHOOK_PROCESSING_FAILED")
                         /\ UNCHANGED <<userPlans, profiles, ledger>>
                  ELSE /\ BagCardinality(payments) < MaxPaymentRows
                       /\ payments' = payments (+) SetToBag({payment})
                       /\ Answer(NoId, event, 200, "RECEIVED")
                       /\ userPlans' = Upsert(userId, planId, expiresAt, FALSE)
                       /\ profiles' = [profiles EXCEPT
                                         ![userId].currentPlanId = planId]
                       /\ ledger' = [ledger EXCEPT ![<<userId, planId>>] = EmptyBag]
       ELSE /\ Answer(NoId, event, 200, "RECEIVED")
            /\ UNCHANGED <<userPlans, profiles, payments, ledger>>
  /\ UNCHANGED <<now, stripe, generated, dreams, sessions, req, accountVars, contentVars>>

\* Boolean(value) of a JSON value
Boolean(v) == JsonTruthy(v)

\* the columns POST /plans and PATCH /plans/:id take from a body: a number,
\* or null where the column is nullable
Column(body, field, otherwise) ==
  IF Has(body, field) THEN body[field] ELSE otherwise

\* POST /plans, gated by the role in the token: the body is validated, then
\* prisma.plan.create; maxDreams, letterQuota and audioMinutesQuota are
\* Number(value) when the body carries them (0 for null) and null otherwise;
\* a name that is stored violates plans_name_key
PostPlan(token, body) ==
  LET input == [route |-> "POST /plans", body |-> body]
      quota(field) == IF Has(body, field) THEN Number(body[field]) ELSE NULL
  IN  /\ IF token.role # "super_admin"
           THEN Answer(token.userId, input, 403, "FORBIDDEN")
                /\ UNCHANGED <<plans, generated>>
         ELSE IF ~Given(body, "name")
           THEN Answer(token.userId, input, 400, "NAME_REQUIRED")
                /\ UNCHANGED <<plans, generated>>
         ELSE IF ~Has(body, "price") \/ body.price = NULL
           THEN Answer(token.userId, input, 400, "PRICE_REQUIRED")
                /\ UNCHANGED <<plans, generated>>
         ELSE IF ~Given(body, "currency")
           THEN Answer(token.userId, input, 400, "CURRENCY_REQUIRED")
                /\ UNCHANGED <<plans, generated>>
         ELSE IF ~Has(body, "durationDays") \/ ~Truthy(body.durationDays)
           THEN Answer(token.userId, input, 400, "DURATION_REQUIRED")
                /\ UNCHANGED <<plans, generated>>
         ELSE IF \E p \in plans : p.name = body.name
           THEN Answer(token.userId, input, 500, "CREATE_FAILED")
                /\ UNCHANGED <<plans, generated>>
         ELSE /\ generated.plans < Len(NewPlanIds)
              /\ generated' = [generated EXCEPT !.plans = @ + 1]
              /\ plans' = plans \cup
                   {PlanRow(NewPlanIds[GeneratedId("plans")], body.name,
                            [letterQuota |-> quota("letterQuota"),
                             audioMinutesQuota |-> quota("audioMinutesQuota"),
                             maxDreams |-> quota("maxDreams"),
                             durationDays |-> body.durationDays,
                             isActive |-> IF Has(body, "isActive")
                                            THEN Boolean(body.isActive)
                                          ELSE TRUE],
                            now)}
              /\ Answer(token.userId, input, 201, "PLAN_CREATED")
      /\ UNCHANGED <<now, stripe, profiles, userPlans, dreams, payments,
                     sessions, req, ledger, tokens, contentVars>>

\* PATCH /plans/:id up to its update, gated by the role in the token: the
\* plan lookup
PatchPlanBegin(r, token, id, body) ==
  LET input == [route |-> "PATCH /plans/:id", id |-> id, body |-> body]
  IN  /\ req[r].pc = "idle"
      /\ IF token.role # "super_admin"
           THEN Reject(token.userId, input, 403, "FORBIDDEN")
         ELSE IF PlanRows(id) = {}
           THEN Reject(token.userId, input, 404, "PLAN_NOT_FOUND")
         ELSE Await(r, Frame("patchPlan.update", token.userId, input))
      /\ UNCHANGED storedVars

\* prisma.plan.update of a PATCH /plans/:id in flight: the columns the body
\* carries; durationDays is Number(value), the quotas may be set to null; a
\* name another plan has violates plans_name_key
PatchPlanUpdate(r) ==
  LET id == req[r].input.id
      body == req[r].input.body
  IN  /\ req[r].pc = "patchPlan.update"
      /\ IF \/ PlanRows(id) = {}
            \/ Has(body, "name") /\ \E p \in plans : p.id # id /\ p.name = body.name
           THEN Reply(r, 500, "UPDATE_FAILED") /\ UNCHANGED plans
         ELSE /\ plans' =
                   {IF p.id # id THEN p
                    ELSE [p EXCEPT
                            !.name = Column(body, "name", @),
                            !.durationDays =
                               IF Has(body, "durationDays")
                                 THEN Number(body.durationDays) ELSE @,
                            !.maxDreams = Column(body, "maxDreams", @),
                            !.letterQuota = Column(body, "letterQuota", @),
                            !.audioMinutesQuota =
                               Column(body, "audioMinutesQuota", @),
                            !.isActive = IF Has(body, "isActive")
                                           THEN Boolean(body.isActive)
                                         ELSE @]
                      : p \in plans}
              /\ Reply(r, 200, "PLAN_UPDATED")
      /\ UNCHANGED <<now, stripe, generated, profiles, userPlans, dreams, payments, sessions,
                     ledger, tokens, contentVars>>

\* the script create-trial-plan.ts up to its create: plan.findFirst where
\* isTrial; the script ends when a trial plan is stored
CreateTrialPlanBegin(r) ==
  /\ req[r].pc = "idle"
  /\ ~\E p \in plans : p.isTrial
  /\ Await(r, Frame("createTrialPlan.create", NoId,
                    Route("create-trial-plan.ts")))
  /\ UNCHANGED storedVars

\* prisma.plan.create of the script: the plan 'Free Trial' under a new id; a
\* plan of that name violates plans_name_key and the script ends in its catch
CreateTrialPlanCreate(r) ==
  /\ req[r].pc = "createTrialPlan.create"
  /\ req' = [req EXCEPT ![r] = IdleFrame]
  /\ IF \E p \in plans : p.name = "Free Trial"
       THEN UNCHANGED <<plans, generated>>
     ELSE /\ generated.plans < Len(NewPlanIds)
          /\ generated' = [generated EXCEPT !.plans = @ + 1]
          /\ plans' = plans \cup
               {[PlanRow(NewPlanIds[GeneratedId("plans")], "Free Trial",
                         [letterQuota |-> 5000, audioMinutesQuota |-> 30,
                          maxDreams |-> 10, durationDays |-> 7,
                          isActive |-> TRUE], now)
                   EXCEPT !.isTrial = TRUE, !.trialDurationDays = 7]}
  /\ UNCHANGED <<now, stripe, profiles, userPlans, dreams, payments, sessions, resp,
                 call, ledger, tokens, contentVars>>

\* the plan named "Free", if stored
FreePlans == {p \in plans : p.name = "Free"}

\* the users without an active subscription row
usersWithoutPlan ==
  {u \in DOMAIN profiles : ~\E s \in userPlans : s.userId = u /\ s.isActive}

\* the script addFreePlan up to the creation of the plan or the selection of
\* the users: plan.findFirst by the name "Free"
AddFreePlanBegin(r) ==
  /\ req[r].pc = "idle"
  /\ Await(r, [Frame(IF FreePlans = {} THEN "addFreePlan.create"
                     ELSE "addFreePlan.users", NoId, Route("addFreePlan"))
                 EXCEPT !.found = FreePlans])
  /\ UNCHANGED storedVars

\* prisma.plan.create of the free plan under a new id; a plan of that name
\* violates plans_name_key and the script ends in its catch
AddFreePlanCreate(r) ==
  LET created == PlanRow(NewPlanIds[GeneratedId("plans")], "Free",
                         [letterQuota |-> 10000, audioMinutesQuota |-> 60,
                          maxDreams |-> 100, durationDays |-> 36500,
                          isActive |-> TRUE], now)
  IN  /\ req[r].pc = "addFreePlan.create"
      /\ IF FreePlans # {}
           THEN /\ req' = [req EXCEPT ![r] = IdleFrame]
                /\ UNCHANGED <<plans, generated>>
         ELSE /\ generated.plans < Len(NewPlanIds)
              /\ generated' = [generated EXCEPT !.plans = @ + 1]
              /\ plans' = plans \cup {created}
              /\ req' = [req EXCEPT ![r].pc = "addFreePlan.users",
                                    ![r].found = {created}]
      /\ UNCHANGED <<now, stripe, profiles, userPlans, dreams, payments, sessions, resp,
                     call, ledger, tokens, contentVars>>

\* the script goes on to the next of the users it selected, or ends
AddFreePlanNext(r, remaining) ==
  req' = [req EXCEPT ![r] =
            IF remaining = {} THEN IdleFrame
            ELSE [req[r] EXCEPT !.pc = "addFreePlan.find", !.userId = NoId,
                                !.subscription = {}, !.data = remaining]]

\* the script ends in its catch
AddFreePlanFails(r) == req' = [req EXCEPT ![r] = IdleFrame]

\* profile.findMany of the users without an active subscription
AddFreePlanUsers(r) ==
  /\ req[r].pc = "addFreePlan.users"
  /\ AddFreePlanNext(r, usersWithoutPlan)
  /\ UNCHANGED <<resp, call, storedVars>>

\* userPlan.findFirst of one of the users selected, on (userId, planId)
AddFreePlanFind(r) ==
  /\ req[r].pc = "addFreePlan.find"
  /\ \E user \in req[r].data, plan \in req[r].found :
       req' = [req EXCEPT ![r].pc = "addFreePlan.grant",
                          ![r].userId = user,
                          ![r].subscription = RowOf(user, plan.id)]
  /\ UNCHANGED <<resp, call, storedVars>>

\* userPlan.create of the free subscription without expiry when the lookup
\* found no row, userPlan.update to active otherwise; a row that exists by
\* now, a user or a row that is gone ends the script in its catch
AddFreePlanGrant(r) ==
  LET user == req[r].userId
      remaining == req[r].data \ {user}
  IN  /\ req[r].pc = "addFreePlan.grant"
      /\ \E plan \in req[r].found :
           IF req[r].subscription = {}
             THEN IF user \notin DOMAIN profiles \/ RowOf(user, plan.id) # {}
                    THEN AddFreePlanFails(r) /\ UNCHANGED <<userPlans, ledger>>
                  ELSE /\ userPlans' = userPlans \cup
                            {[userId |-> user, planId |-> plan.id,
                              startedAt |-> now, expiresAt |-> NULL,
                              isActive |-> TRUE, lettersUsed |-> 0,
                              audioMinutesUsed |-> 0]}
                       /\ ledger' = [ledger EXCEPT ![<<user, plan.id>>] = EmptyBag]
                       /\ AddFreePlanNext(r, remaining)
           ELSE IF RowOf(user, plan.id) = {}
                  THEN AddFreePlanFails(r) /\ UNCHANGED <<userPlans, ledger>>
                ELSE /\ userPlans' =
                          {IF s \in RowOf(user, plan.id)
                             THEN [s EXCEPT !.isActive = TRUE] ELSE s
                             : s \in userPlans}
                     /\ UNCHANGED ledger
                     /\ AddFreePlanNext(r, remaining)
      /\ UNCHANGED <<now, stripe, generated, profiles, dreams, payments, sessions, resp, call,
                     accountVars, contentVars>>

\* a millisecond passes
Elapse ==
  /\ now % Day < MaxMillis
  /\ now' = now + 1
  /\ UNCHANGED <<stripe, generated, profiles, userPlans, dreams, payments,
                 sessions, req, resp, call, ledger, accountVars, contentVars>>

\* a day passes
Tick ==
  /\ now \div Day < MaxTime
  /\ now' = now + Day
  /\ UNCHANGED <<stripe, generated, profiles, userPlans, dreams, payments, sessions, req, resp,
                 call, ledger, accountVars, contentVars>>

----------------------------------------------------------------------------
(* Accounts: registration, login, the profile, its deletion, and roles *)

Roles == {"dreamer", "interpreter", "admin", "super_admin"}
ALLOWED_SELF_SERVICE_ROLES == {"dreamer", "interpreter"}

Emails == {"e1", "e4", "e5"}

\* generateToken: the payload carries the role the profile has when it is issued
generateToken(userId, role) == [userId |-> userId, role |-> role]

ensureRole_anyProfile(userId, roles) == userId \in DOMAIN profiles

\* ensureRole: the role stored in the requester's profile is one of roles
ensureRole(userId, roles) ==
  /\ userId \in DOMAIN profiles
  /\ profiles[userId].role \in roles

\* tx.plan.findFirst where isTrial and isActive, orderBy createdAt desc: the
\* rows it may return, empty when it returns null
findTrialPlan ==
  LET candidates == {p \in plans : p.isTrial /\ p.isActive}
  IN  {p \in candidates : \A q \in candidates : q.createdAt <= p.createdAt}

trialExpiry_durationDays(plan) == now + plan.durationDays * Day

\* expiresAt.setDate(expiresAt.getDate() + trialPlan.trialDurationDays)
trialExpiry(plan) == now + plan.trialDurationDays * Day

\* the subscription a registration creates for a trial plan
TrialSubscription(userId, plan) ==
  [userId |-> userId, planId |-> plan.id, startedAt |-> now,
   expiresAt |-> trialExpiry(plan), isActive |-> TRUE,
   lettersUsed |-> 0, audioMinutesUsed |-> 0]

\* the transaction of POST /auth/register, then the token and 201: the user
\* and the profile, and for a dreamer the trial subscription
CreateAccount(input) ==
    LET id == NewUserIds[GeneratedId("users")]
    IN  /\ generated.users < Len(NewUserIds)
        /\ generated' = [generated EXCEPT !.users = @ + 1]
        /\ profiles' = profiles @@
             (id :> ProfileRow(input.email, input.fullName, input.role))
        /\ IF input.role = "dreamer" /\ findTrialPlan # {}
             THEN \E trialPlan \in findTrialPlan :
                    userPlans' =
                      IF Truthy(trialPlan.trialDurationDays)
                        THEN userPlans \cup {TrialSubscription(id, trialPlan)}
                      ELSE userPlans
           ELSE UNCHANGED userPlans
        /\ tokens' = tokens \cup {generateToken(id, input.role)}
        /\ Answer(NoId, input, 201, "REGISTERED")

EmailTaken(email) == \E u \in DOMAIN profiles : profiles[u].email = email

\* POST /auth/register up to its transaction: the validation of the body and
\* prisma.user.findUnique by email; fullName stands for the password and the
\* full name, which the handler requires together; the password is hashed,
\* which changes nothing stored, before the transaction starts
RegisterBegin(r, email, fullName, requested) ==
  LET role == IF requested = Undefined THEN "dreamer" ELSE requested
      input == [route |-> "POST /auth/register", email |-> email,
                fullName |-> fullName, role |-> role]
  IN  /\ req[r].pc = "idle"
      /\ IF email = Undefined \/ fullName = Undefined
           THEN Reject(NoId, input, 400, "REQUIRED")
         ELSE IF role \notin ALLOWED_SELF_SERVICE_ROLES
           THEN Reject(NoId, input, 403, "ROLE_NOT_ALLOWED")
         ELSE IF EmailTaken(email)
           THEN Reject(NoId, input, 409, "EMAIL_EXISTS")
         ELSE Await(r, Frame("register.transaction", NoId, input))
      /\ UNCHANGED storedVars

\* the transaction of a registration in flight: tx.user.create violates
\* users_email_key when the email was registered since the lookup, the error
\* reaches the catch of the handler, which answers 500; storageFails is a
\* failure of a write of the transaction
RegisterTransaction(r, storageFails) ==
  /\ req[r].pc = "register.transaction"
  /\ req' = [req EXCEPT ![r] = IdleFrame]
  /\ IF EmailTaken(req[r].input.email) \/ storageFails
       THEN /\ Answer(NoId, req[r].input, 500, "REGISTER_FAILED")
            /\ UNCHANGED <<generated, profiles, userPlans, tokens>>
     ELSE CreateAccount(req[r].input)
  /\ UNCHANGED <<now, stripe, dreams, payments, sessions, ledger, plans,
                 contentVars>>

\* POST /auth/login up to the check of the password: the body and
\* prisma.user.findUnique with the profile
LoginBegin(r, email, passwordValid) ==
  LET input == [route |-> "POST /auth/login", email |-> email,
                passwordValid |-> passwordValid]
      user == {u \in DOMAIN profiles : profiles[u].email = email}
  IN  /\ req[r].pc = "idle"
      /\ IF email = Undefined
           THEN Reject(NoId, input, 400, "REQUIRED")
         ELSE IF user = {}
           THEN Reject(NoId, input, 401, "INVALID_CREDENTIALS")
         ELSE \E u \in user :
           Await(r, [Frame("login.verify", u, input) EXCEPT
                       !.role = profiles[u].role])
      /\ UNCHANGED storedVars

\* verifyPassword of a login in flight, then the token with the role of the
\* profile as the handler read it
LoginVerify(r) ==
  /\ req[r].pc = "login.verify"
  /\ req' = [req EXCEPT ![r] = IdleFrame]
  /\ IF ~req[r].input.passwordValid
       THEN Answer(NoId, req[r].input, 401, "INVALID_CREDENTIALS")
            /\ UNCHANGED tokens
     ELSE /\ tokens' = tokens \cup {generateToken(req[r].userId, req[r].role)}
          /\ Answer(NoId, req[r].input, 200, "LOGGED_IN")
  /\ UNCHANGED <<now, stripe, generated, profiles, userPlans, dreams, payments, sessions, ledger,
                 plans, contentVars>>

\* PATCH /profile/update: fullName, bio and avatarUrl are taken from the body,
\* whatever else it carries
UpdateProfile(token, body) ==
  LET input == Route("PATCH /profile/update")
  IN  /\ IF token.userId \notin DOMAIN profiles
           THEN Answer(token.userId, input, 500, "UPDATE_FAILED")
                /\ UNCHANGED profiles
         ELSE /\ profiles' = [profiles EXCEPT ![token.userId].fullName =
                                 IF "fullName" \in DOMAIN body
                                   THEN body.fullName ELSE @]
              /\ Answer(token.userId, input, 200, "PROFILE_UPDATED")
      /\ UNCHANGED <<now, stripe, generated, userPlans, dreams, payments, sessions, req, ledger,
                     accountVars, contentVars>>

\* PATCH /profile/availability: isAvailable of the body must be a boolean,
\* then prisma.profile.update of the requester's profile, whatever its role;
\* a requester whose profile is gone is a failed update
UpdateAvailability(token, body) ==
  LET input == Route("PATCH /profile/availability")
  IN  /\ IF ~Has(body, "isAvailable") \/ body.isAvailable.typeof # "boolean"
           THEN Answer(token.userId, input, 400, "IS_AVAILABLE_INVALID")
                /\ UNCHANGED profiles
         ELSE IF token.userId \notin DOMAIN profiles
           THEN Answer(token.userId, input, 500, "UPDATE_FAILED")
                /\ UNCHANGED profiles
         ELSE /\ profiles' = [profiles EXCEPT ![token.userId].isAvailable =
                                 body.isAvailable.value]
              /\ Answer(token.userId, input, 200, "AVAILABILITY_UPDATED")
      /\ UNCHANGED <<now, stripe, generated, userPlans, dreams, payments,
                     sessions, req, ledger, accountVars, contentVars>>

\* a row of dreams or requests once the profile of its interpreter is deleted
\* (ON DELETE SET NULL)
Unassigned(row, userId) ==
  IF row.interpreterId = userId THEN [row EXCEPT !.interpreterId = NoId]
  ELSE row

\* DELETE /profile/account: tx.user.delete; the profile goes with the user,
\* and with the profile its subscriptions, payments, dreams, requests,
\* messages, comments and chat messages, and everything that hangs on a dream
\* or a request that goes (ON DELETE CASCADE); the dreams and requests it
\* interprets lose their interpreter; a user that is gone is a failed delete;
\* the delete waits while a transaction of POST /dreams holds the dream it
\* created for the profile
DeleteAccount(userId) ==
  LET input == Route("DELETE /profile/account")
      keptDreams == {d \in BagToSet(dreams) : d.dreamerId # userId}
      goneDreams == BagToSet(dreams) \ keptDreams
      goneRequests == {q \in requests :
                         \/ q.dreamerId = userId
                         \/ \E d \in goneDreams : d.id = q.dreamId}
  IN  /\ \A r \in ReqIds : req[r].pc = "txUpdate" => req[r].userId # userId
      /\ IF userId \notin DOMAIN profiles
           THEN /\ Answer(userId, input, 500, "DELETE_FAILED")
                /\ UNCHANGED <<profiles, userPlans, dreams, payments, ledger,
                               requests, messages, chatMessages, comments>>
         ELSE /\ profiles' = [u \in DOMAIN profiles \ {userId} |-> profiles[u]]
              /\ userPlans' = {s \in userPlans : s.userId # userId}
              /\ ledger' = [k \in DOMAIN ledger |->
                              IF k[1] = userId THEN EmptyBag ELSE ledger[k]]
              /\ payments' =
                   LET kept == {p \in BagToSet(payments) : p.userId # userId}
                   IN  [p \in kept |-> payments[p]]
              /\ dreams' =
                   [e \in {Unassigned(d, userId) : d \in keptDreams} |->
                      BagCardinality(
                        [d \in {k \in keptDreams : Unassigned(k, userId) = e}
                           |-> dreams[d]])]
              /\ requests' =
                   {Unassigned(q, userId) : q \in requests \ goneRequests}
              /\ messages' =
                   {m \in messages :
                      /\ m.senderId # userId
                      /\ \A d \in goneDreams : d.id # m.dreamId}
              /\ comments' =
                   {c \in comments :
                      /\ c.userId # userId
                      /\ \A d \in goneDreams : d.id # c.dreamId}
              /\ chatMessages' =
                   {c \in chatMessages :
                      /\ c.senderId # userId
                      /\ \A q \in goneRequests : q.id # c.requestId}
              /\ Answer(userId, input, 200, "ACCOUNT_DELETED")
      /\ UNCHANGED <<now, stripe, generated, sessions, req, accountVars, uploads>>

\* the plans and the accounts of prisma/seed.js in the order of the script:
\* the plans by name, the accounts super admin, admin, interpreter, dreamer
SeedPlans == <<"p1", "p2">>
SeedUsers == <<"u4", "u3", "u2", "u1">>

\* prisma/seed.js run again: main() up to its first upsert
SeedBegin(r) ==
  /\ req[r].pc = "idle"
  /\ Await(r, Frame("seed.plan", NoId,
                    [route |-> "prisma/seed.js", index |-> 1]))
  /\ UNCHANGED storedVars

\* the frame of the script after the upsert at an index of a list: the next
\* upsert of the list, then the step that follows the list
SeedNext(r, list, after) ==
  IF req[r].input.index < Len(list)
    THEN [req[r] EXCEPT !.input.index = @ + 1]
  ELSE after

\* the script goes on after an upsert: it answers no request, and logs the
\* upsert to the console
SeedProceed(r, frame) ==
  /\ req' = [req EXCEPT ![r] = frame]
  /\ resp' = NoResponse
  /\ call' = Call(NoId, req[r].input)

\* prisma.plan.upsert of the script for one plan, where: { name }: a stored
\* plan of the name takes the columns of the script again (update:
\* planData), else the plan is created
SeedPlanUpsert(r) ==
  LET name == SeedPlans[req[r].input.index]
      after == [req[r] EXCEPT !.pc = "seed.user", !.input.index = 1]
  IN  /\ req[r].pc = "seed.plan"
      /\ IF \E p \in plans : p.name = name
           THEN /\ UNCHANGED generated
                /\ plans' =
                  {IF p.name # name THEN p
                   ELSE [p EXCEPT
                           !.durationDays = Plans[name].durationDays,
                           !.maxDreams = Plans[name].maxDreams,
                           !.letterQuota = Plans[name].letterQuota,
                           !.audioMinutesQuota = Plans[name].audioMinutesQuota,
                           !.isActive = Plans[name].isActive]
                     : p \in plans}
         ELSE /\ generated.plans < Len(NewPlanIds)
              /\ generated' = [generated EXCEPT !.plans = @ + 1]
              /\ plans' = plans \cup
                   {PlanRow(NewPlanIds[GeneratedId("plans")], name,
                            Plans[name], now)}
      /\ SeedProceed(r, SeedNext(r, SeedPlans, after))
      /\ UNCHANGED <<now, stripe, profiles, userPlans, dreams,
                     payments, sessions, ledger, tokens, contentVars>>

\* prisma.user.upsert of the script for one account, where: { email }: a
\* stored user of the email is left as it is (update: {}), else the user and
\* its profile are created under a new id, with the role of the script
SeedUserUpsert(r) ==
  LET seeded == SeedUsers[req[r].input.index]
      id == NewUserIds[GeneratedId("users")]
  IN  /\ req[r].pc = "seed.user"
      /\ IF EmailTaken(SeededEmail[seeded])
           THEN UNCHANGED <<generated, profiles>>
         ELSE /\ generated.users < Len(NewUserIds)
              /\ generated' = [generated EXCEPT !.users = @ + 1]
              /\ profiles' = profiles @@
                   (id :> ProfileRow(SeededEmail[seeded], "seeded",
                                     SeededRole[seeded]))
      /\ SeedProceed(r, SeedNext(r, SeedUsers, IdleFrame))
      /\ UNCHANGED <<now, stripe, userPlans, dreams, payments, sessions,
                     ledger, accountVars, contentVars>>

\* the steps of the script in flight
SeedStep == \E r \in ReqIds : SeedPlanUpsert(r) \/ SeedUserUpsert(r)

\* POST /admin/make-super-admin up to its update: the body, then ensureRole
\* on the stored profile of the requester; the role of the token is recorded
\* with the request, the handler does not decide by it
MakeSuperAdminBegin(r, token, userId) ==
  LET input == [route |-> "POST /admin/make-super-admin",
                role |-> token.role, id |-> userId]
      requesterId == token.userId
  IN  /\ req[r].pc = "idle"
      /\ IF userId = Undefined
           THEN Reject(requesterId, input, 400, "REQUIRED")
         ELSE IF ~ensureRole(requesterId, {"super_admin"})
           THEN Reject(requesterId, input, 403, "FORBIDDEN")
         ELSE Await(r, [Frame("makeSuperAdmin.update", requesterId, input)
                          EXCEPT !.role = RoleOf(requesterId)])
      /\ UNCHANGED storedVars

\* prisma.profile.update of the target to super_admin; a target that is no
\* profile throws and the catch answers 500
MakeSuperAdminUpdate(r) ==
  LET userId == req[r].input.id
  IN  /\ req[r].pc = "makeSuperAdmin.update"
      /\ IF userId \notin DOMAIN profiles
           THEN Reply(r, 500, "UPDATE_FAILED") /\ UNCHANGED profiles
         ELSE /\ profiles' = [profiles EXCEPT ![userId].role = "super_admin"]
              /\ Reply(r, 200, "ROLE_UPDATED")
      /\ UNCHANGED <<now, stripe, generated, userPlans, dreams, payments, sessions, ledger,
                     accountVars, contentVars>>


\* the checks of PATCH /admin/users/:id on its body, field by field in the
\* order of the handler: the error of the first field that fails, or none
PatchUserError(body) ==
  IF Has(body, "fullName") /\ ~IsNull(body.fullName)
                           /\ body.fullName.typeof # "string"
    THEN "FULL_NAME_INVALID"
  ELSE IF Has(body, "role")
          /\ ~(body.role.typeof = "string" /\ body.role.value \in Roles)
    THEN "INVALID_ROLE"
  ELSE IF Has(body, "isAvailable") /\ body.isAvailable.typeof # "boolean"
    THEN "IS_AVAILABLE_INVALID"
  ELSE IF Has(body, "totalInterpretations")
          /\ \A n \in ToNumber(body.totalInterpretations) : n.sign < 0
    THEN "TOTAL_INTERPRETATIONS_INVALID"
  ELSE IF Has(body, "rating") /\ \A n \in ToNumber(body.rating) : n.sign < 0
    THEN "RATING_INVALID"
  ELSE IF DOMAIN body \cap {"fullName", "role", "isAvailable",
                            "totalInterpretations", "rating"} = {}
    THEN "NO_UPDATES"
  ELSE "NONE"

\* the columns prisma.profile.update of PATCH /admin/users/:id refuses:
\* Math.floor(parsedTotal) that is no INT, new Prisma.Decimal(parsedRating)
\* that is no DECIMAL(3, 2)
PatchUserRefused(body) ==
  \/ /\ Has(body, "totalInterpretations")
     /\ \E n \in ToNumber(body.totalInterpretations) :
          IntColumn(MathFloor(n)) = {}
  \/ /\ Has(body, "rating")
     /\ \E n \in ToNumber(body.rating) : DecimalColumn(n) = {}

\* updateData of PATCH /admin/users/:id applied to a row; the rating is kept
\* in hundredths, as the column rounds it
PatchUserData(row, body) ==
  [row EXCEPT
     !.fullName = IF Has(body, "fullName")
                    THEN (IF IsNull(body.fullName) THEN NoId
                          ELSE body.fullName.value)
                  ELSE @,
     !.role = IF Has(body, "role") THEN body.role.value ELSE @,
     !.isAvailable = IF Has(body, "isAvailable")
                       THEN body.isAvailable.value ELSE @,
     !.totalInterpretations =
        IF Has(body, "totalInterpretations")
          THEN CHOOSE column \in UNION {IntColumn(MathFloor(n)) :
                         n \in ToNumber(body.totalInterpretations)} : TRUE
        ELSE @,
     !.rating = IF Has(body, "rating")
                  THEN CHOOSE column \in UNION {DecimalColumn(n) :
                                 n \in ToNumber(body.rating)} : TRUE
                ELSE @]

\* PATCH /admin/users/:id up to the lookup of the target: ensureRole on the
\* stored profile of the requester
PatchUserBegin(r, token, targetId, body) ==
  LET input == [route |-> "PATCH /admin/users/:id", role |-> token.role,
                id |-> targetId, body |-> body]
      requesterId == token.userId
  IN  /\ req[r].pc = "idle"
      /\ IF ~ensureRole(requesterId, {"super_admin"})
           THEN Reject(requesterId, input, 403, "FORBIDDEN")
         ELSE Await(r, [Frame("patchUser.find", requesterId, input)
                          EXCEPT !.role = RoleOf(requesterId)])
      /\ UNCHANGED storedVars

\* prisma.profile.findUnique of the target, then the checks of the body
PatchUserFind(r) ==
  LET error == PatchUserError(req[r].input.body)
  IN  /\ req[r].pc = "patchUser.find"
      /\ IF req[r].input.id \notin DOMAIN profiles
           THEN Reply(r, 404, "PROFILE_NOT_FOUND")
         ELSE IF error # "NONE"
           THEN Reply(r, 400, error)
         ELSE Proceed(r, [req[r] EXCEPT !.pc = "patchUser.update"])
      /\ UNCHANGED storedVars

\* prisma.profile.update of the target; a target that is no profile by now
\* or a value its column refuses throws and the catch answers 500
PatchUserUpdate(r) ==
  LET targetId == req[r].input.id
  IN  /\ req[r].pc = "patchUser.update"
      /\ IF targetId \notin DOMAIN profiles
            \/ PatchUserRefused(req[r].input.body)
           THEN Reply(r, 500, "UPDATE_FAILED") /\ UNCHANGED profiles
         ELSE /\ profiles' = [profiles EXCEPT ![targetId] =
                                PatchUserData(@, req[r].input.body)]
              /\ Reply(r, 200, "USER_UPDATED")
      /\ UNCHANGED <<now, stripe, generated, userPlans, dreams, payments, sessions, ledger,
                     accountVars, contentVars>>

----------------------------------------------------------------------------
(* Access: the interpreter of a dream or a request, messages and chat *)

\* the id of a request that carries none
Missing == 0

mayAssignInterpreter_anyEditor(isAdmin, isSuperAdmin) == TRUE

\* the condition under which interpreter_id is accepted: isAdmin || isSuperAdmin
mayAssignInterpreter(isAdmin, isSuperAdmin) == isAdmin \/ isSuperAdmin

\* canModifyContent = isSuperAdmin || isInterpreter || isDreamer
canModifyContent(isSuperAdmin, isInterpreter, isDreamer) ==
  isSuperAdmin \/ isInterpreter \/ isDreamer

mayWriteInterpretation_anyEditor(isSuperAdmin, isInterpreter) == TRUE

\* the condition under which interpretation is accepted:
\* isSuperAdmin || isInterpreter
mayWriteInterpretation(isSuperAdmin, isInterpreter) ==
  isSuperAdmin \/ isInterpreter

\* the fields of its body PATCH /dreams/:id copies into updateData
DreamUpdates == {"status", "interpretation", "notes", "interpreter_id"}

\* PATCH /dreams/:id up to the profile lookup: prisma.dream.findUnique
PatchDreamBegin(r, userId, id, body) ==
  LET input == [route |-> "PATCH /dreams/:id", id |-> id, body |-> body]
  IN  /\ req[r].pc = "idle"
      /\ IF DreamRows(id) = {}
           THEN Reject(userId, input, 404, "DREAM_NOT_FOUND")
         ELSE \E dream \in DreamRows(id) :
           Await(r, [Frame("patchDream.profile", userId, input) EXCEPT
                       !.found = {dream}])
      /\ UNCHANGED storedVars

\* the profile lookup of a PATCH /dreams/:id in flight, then the checks field
\* by field against the dream as the handler read it; if (field) is false of
\* a field that is absent or the empty string, and such a field is neither
\* checked nor copied
PatchDreamProfile(r) ==
  LET userId == req[r].userId
      body == req[r].input.body
      role == RoleOf(userId)
      isSuperAdmin == role = "super_admin"
      isAdmin == role = "admin"
  IN  /\ req[r].pc = "patchDream.profile"
      /\ \E dream \in req[r].found :
           LET isInterpreter == role = "interpreter" /\ dream.interpreterId = userId
               isDreamer == role = "dreamer" /\ dream.dreamerId = userId
               canModify ==
                 canModifyContent(isSuperAdmin, isInterpreter, isDreamer)
           IN  IF ~canModify /\ ~isAdmin
                 THEN Reply(r, 403, "FORBIDDEN")
               ELSE IF Given(body, "status") /\ ~canModify /\ ~isSuperAdmin
                 THEN Reply(r, 403, "STATUS_FORBIDDEN")
               ELSE IF Given(body, "interpretation")
                       /\ ~mayWriteInterpretation(isSuperAdmin, isInterpreter)
                 THEN Reply(r, 403, "INTERPRETATION_FORBIDDEN")
               ELSE IF Given(body, "notes") /\ ~canModify /\ ~isSuperAdmin
                 THEN Reply(r, 403, "FORBIDDEN")
               ELSE IF Given(body, "interpreter_id")
                       /\ ~mayAssignInterpreter(isAdmin, isSuperAdmin)
                 THEN Reply(r, 403, "ONLY_ADMINS_ASSIGN")
               ELSE IF \A field \in DreamUpdates : ~Given(body, field)
                 THEN Reply(r, 400, "NO_UPDATES")
               ELSE Proceed(r, [req[r] EXCEPT !.pc = "patchDream.update",
                                              !.role = role])
      /\ UNCHANGED storedVars

\* the values of the column status of dreams and of requests
DreamStatuses ==
  {"new", "pending_inquiry", "pending_interpretation", "interpreted",
   "returned"}
RequestStatuses ==
  {"open", "assigned", "in_progress", "completed", "cancelled", "pending",
   "accepted", "rejected"}

\* prisma.dream.update of the fields supplied on the row with the id; a dream
\* that is gone by now throws, an interpreter_id that is no profile violates
\* the foreign key, a status that is no value of the column is refused, and
\* the catch answers 500; the response is the updated dream
PatchDreamUpdate(r) ==
  LET id == req[r].input.id
      body == req[r].input.body
  IN  /\ req[r].pc = "patchDream.update"
      /\ IF \/ DreamRows(id) = {}
            \/ Given(body, "interpreter_id")
                 /\ body.interpreter_id \notin DOMAIN profiles
            \/ Given(body, "status") /\ body.status \notin DreamStatuses
           THEN Reply(r, 500, "UPDATE_FAILED") /\ UNCHANGED dreams
         ELSE \E dream \in DreamRows(id) :
           LET updated ==
                 [dream EXCEPT
                    !.status = IF Given(body, "status") THEN body.status
                               ELSE IF Given(body, "interpreter_id")
                                 THEN "pending_interpretation" ELSE @,
                    !.interpretation = IF Given(body, "interpretation")
                                         THEN body.interpretation ELSE @,
                    !.notes = IF Given(body, "notes") THEN body.notes ELSE @,
                    !.interpreterId = IF Given(body, "interpreter_id")
                                        THEN body.interpreter_id ELSE @]
           IN  /\ dreams' = (dreams (-) SetToBag({dream}))
                              (+) SetToBag({updated})
               /\ DiscloseReply(r, "DREAM_UPDATED", {id})
      /\ UNCHANGED <<now, stripe, generated, profiles, userPlans, payments, sessions, ledger,
                     accountVars, contentVars>>

\* DELETE /dreams/:id up to its delete: prisma.dream.findUnique and the check
\* of the owner
DeleteDreamBegin(r, userId, id) ==
  LET input == [route |-> "DELETE /dreams/:id", id |-> id]
  IN  /\ req[r].pc = "idle"
      /\ IF DreamRows(id) = {}
           THEN Reject(userId, input, 404, "DREAM_NOT_FOUND")
         ELSE \E dream \in DreamRows(id) :
           IF dream.dreamerId # userId
             THEN Reject(userId, input, 403, "FORBIDDEN")
           ELSE Await(r, [Frame("deleteDream.delete", userId, input) EXCEPT
                            !.found = {dream}])
      /\ UNCHANGED storedVars

\* prisma.dream.delete; the messages, the comments and the requests of the
\* dream, and the chat of those requests, go with it (ON DELETE CASCADE); a
\* dream that is gone by now throws and the catch answers 500
DeleteDreamDelete(r) ==
  LET id == req[r].input.id
  IN  /\ req[r].pc = "deleteDream.delete"
      /\ IF DreamRows(id) = {}
           THEN Reply(r, 500, "DELETE_FAILED")
                /\ UNCHANGED <<dreams, contentVars>>
         ELSE \E dream \in DreamRows(id) :
           LET gone == {q \in requests : q.dreamId = id}
           IN  /\ dreams' = dreams (-) SetToBag({dream})
               /\ messages' = {m \in messages : m.dreamId # id}
               /\ comments' = {c \in comments : c.dreamId # id}
               /\ requests' = requests \ gone
               /\ chatMessages' =
                    {c \in chatMessages : \A q \in gone : c.requestId # q.id}
               /\ UNCHANGED uploads
               /\ Reply(r, 200, "DREAM_DELETED")
      /\ UNCHANGED <<now, stripe, generated, profiles, userPlans, payments, sessions, ledger,
                     accountVars>>

\* PATCH /requests/:id up to the profile lookup: prisma.request.findUnique
PatchRequestBegin(r, requesterId, id, body) ==
  LET input == [route |-> "PATCH /requests/:id", id |-> id, body |-> body]
  IN  /\ req[r].pc = "idle"
      /\ IF RequestRows(id) = {}
           THEN Reject(requesterId, input, 404, "REQUEST_NOT_FOUND")
         ELSE \E existingRequest \in RequestRows(id) :
           Await(r, [Frame("patchRequest.profile", requesterId, input) EXCEPT
                       !.found = {existingRequest}])
      /\ UNCHANGED storedVars

\* the profile lookup of a PATCH /requests/:id in flight, then the checks
\* against the request as the handler read it; if (status) and
\* if (interpreterId) are false of the empty string
PatchRequestProfile(r) ==
  LET requesterId == req[r].userId
      body == req[r].input.body
      role == RoleOf(requesterId)
      isSuperAdmin == role = "super_admin"
      isAdmin == role = "admin"
  IN  /\ req[r].pc = "patchRequest.profile"
      /\ \E existingRequest \in req[r].found :
           LET isDreamer == existingRequest.dreamerId = requesterId
               isInterpreter == existingRequest.interpreterId = requesterId
           IN  IF ~isSuperAdmin /\ ~isAdmin /\ ~isDreamer /\ ~isInterpreter
                 THEN Reply(r, 403, "FORBIDDEN")
               ELSE IF Given(body, "interpreterId")
                       /\ ~mayAssignInterpreter(isAdmin, isSuperAdmin)
                 THEN Reply(r, 403, "ONLY_ADMINS_ASSIGN")
               ELSE IF Given(body, "status") /\ ~isSuperAdmin /\ ~isDreamer
                       /\ ~isInterpreter
                 THEN Reply(r, 403, "STATUS_FORBIDDEN")
               ELSE IF ~Given(body, "status") /\ ~Given(body, "interpreterId")
                 THEN Reply(r, 400, "NO_UPDATES")
               ELSE Proceed(r, [req[r] EXCEPT !.pc = "patchRequest.update",
                                              !.role = role])
      /\ UNCHANGED storedVars

\* prisma.request.update on the row with the id; a request that is gone by
\* now throws, an interpreterId that is no profile violates the foreign key,
\* a status that is no value of the column is refused, and the catch answers
\* 500; the response is the updated request with its dream (include: dream)
PatchRequestUpdate(r) ==
  LET id == req[r].input.id
      body == req[r].input.body
  IN  /\ req[r].pc = "patchRequest.update"
      /\ IF \/ RequestRows(id) = {}
            \/ Given(body, "interpreterId")
                 /\ body.interpreterId \notin DOMAIN profiles
            \/ Given(body, "status") /\ body.status \notin RequestStatuses
           THEN Reply(r, 500, "UPDATE_FAILED") /\ UNCHANGED requests
         ELSE \E existingRequest \in RequestRows(id) :
           LET updated ==
                 [existingRequest EXCEPT
                    !.status = IF Given(body, "status") THEN body.status
                               ELSE IF Given(body, "interpreterId")
                                 THEN "in_progress" ELSE @,
                    !.interpreterId = IF Given(body, "interpreterId")
                                        THEN body.interpreterId ELSE @]
           IN  /\ requests' = (requests \ {existingRequest}) \cup {updated}
               /\ DiscloseReply(r, "REQUEST_UPDATED",
                                {existingRequest.dreamId})
      /\ UNCHANGED <<now, stripe, generated, profiles, userPlans, dreams, payments, sessions,
                     ledger, accountVars, messages, chatMessages, comments,
                     uploads>>

\* GET /messages?dream_id= up to the profile lookup: prisma.dream.findUnique
GetMessagesBegin(r, userId, dreamId) ==
  LET input == [route |-> "GET /messages", id |-> dreamId]
  IN  /\ req[r].pc = "idle"
      /\ IF dreamId = Missing
           THEN Reject(userId, input, 400, "DREAM_ID_REQUIRED")
         ELSE IF DreamRows(dreamId) = {}
           THEN Reject(userId, input, 404, "DREAM_NOT_FOUND")
         ELSE \E dream \in DreamRows(dreamId) :
           Await(r, [Frame("getMessages.profile", userId, input) EXCEPT
                       !.found = {dream}])
      /\ UNCHANGED storedVars

\* the profile lookup of a GET /messages in flight, then the access check on
\* the dream as the handler read it
GetMessagesProfile(r) ==
  LET userId == req[r].userId
      role == RoleOf(userId)
      isSuperAdmin == role = "super_admin"
  IN  /\ req[r].pc = "getMessages.profile"
      /\ \E dream \in req[r].found :
           LET hasAccess == \/ dream.dreamerId = userId
                            \/ dream.interpreterId = userId
                            \/ role = "admin"
                            \/ role = "super_admin"
           IN  IF ~hasAccess
                 THEN Reply(r, 403, "FORBIDDEN")
               ELSE IF dream.interpreterId = NoId /\ ~isSuperAdmin
                 THEN Reply(r, 403, "NO_INTERPRETER_ASSIGNED")
               ELSE Proceed(r, [req[r] EXCEPT !.pc = "getMessages.findMany",
                                              !.role = role])
      /\ UNCHANGED storedVars

\* prisma.message.findMany of the dream
GetMessagesFindMany(r) ==
  /\ req[r].pc = "getMessages.findMany"
  /\ Reply(r, 200, "MESSAGES")
  /\ UNCHANGED storedVars

\* !value of the content of a body
Falsy(content) == content = Undefined \/ content = ""

\* the audio of a body (none or one JSON value) is truthy
HasAudio(audio) == \E a \in audio : JsonTruthy(a)

\* POST /messages up to the write of the file or of the message: the body,
\* prisma.dream.findUnique and the checks; audio.startsWith throws a TypeError
\* of an audio that is no string; a recording that matches is written to a
\* file, another audio is ignored
PostMessageBegin(r, userId, dreamId, content, audio) ==
  LET input == [route |-> "POST /messages", id |-> dreamId,
                content |-> content, audio |-> audio]
      free == generated.messages
                + InFlightAt({"postMessage.writeFile", "postMessage.create"})
                < MaxMessageRows
  IN  /\ req[r].pc = "idle"
      /\ IF dreamId = Missing
           THEN Reject(userId, input, 400, "DREAM_ID_REQUIRED")
         ELSE IF Falsy(content) /\ ~HasAudio(audio)
           THEN Reject(userId, input, 400, "CONTENT_REQUIRED")
         ELSE IF DreamRows(dreamId) = {}
           THEN Reject(userId, input, 404, "DREAM_NOT_FOUND")
         ELSE \E dream \in DreamRows(dreamId) :
           IF dream.interpreterId = NoId
             THEN Reject(userId, input, 403, "NO_INTERPRETER_ASSIGNED")
           ELSE IF dream.dreamerId # userId /\ dream.interpreterId # userId
             THEN Reject(userId, input, 403, "NOT_AUTHORIZED")
           ELSE IF \E a \in audio : JsonTruthy(a) /\ a.typeof # "string"
             THEN Reject(userId, input, 500, "SEND_FAILED")
           ELSE LET matches ==
                      UNION {IF JsonTruthy(a) /\ startsWithDataAudio(a.value)
                               THEN matchesAudio(a.value) ELSE {} : a \in audio}
                IN  /\ free
                    /\ Await(r, [Frame(IF matches # {}
                                         THEN "postMessage.writeFile"
                                       ELSE "postMessage.create",
                                       userId, input) EXCEPT
                                   !.found = {dream},
                                   !.data = {AudioFile("msg-", userId, DateNow,
                                                       m.audioType)
                                               : m \in matches}])
      /\ UNCHANGED storedVars

\* writeFile of the recording of a message
PostMessageWriteFile(r) ==
  /\ req[r].pc = "postMessage.writeFile"
  /\ uploads' = uploads \cup req[r].data
  /\ Proceed(r, [req[r] EXCEPT !.pc = "postMessage.create"])
  /\ UNCHANGED <<now, stripe, generated, profiles, userPlans, dreams, payments, sessions, ledger,
                 accountVars, requests, messages, chatMessages, comments>>

\* prisma.message.create; a dream or a sender that is gone by now violates a
\* foreign key and the catch answers 500
PostMessageCreate(r) ==
  LET userId == req[r].userId
      dreamId == req[r].input.id
      content == req[r].input.content
  IN  /\ req[r].pc = "postMessage.create"
      /\ IF DreamRows(dreamId) = {} \/ userId \notin DOMAIN profiles
           THEN Reply(r, 500, "SEND_FAILED") /\ UNCHANGED messages
         ELSE /\ messages' = messages \cup
                   {[id |-> GeneratedId("messages"), dreamId |-> dreamId,
                     senderId |-> userId,
                     content |-> IF Falsy(content) THEN "[voice message]"
                                 ELSE content,
                     messageType |-> IF req[r].data # {} THEN "audio"
                                     ELSE "text",
                     audioUrl |-> req[r].data]}
              /\ Reply(r, 201, "MESSAGE_CREATED")
      /\ generated' = [generated EXCEPT !.messages =
                         IF messages' = messages THEN @ ELSE @ + 1]
      /\ UNCHANGED <<now, stripe, profiles, userPlans, dreams, payments, sessions,
                     ledger, accountVars, requests, chatMessages, comments,
                     uploads>>

\* DELETE /messages/:id up to its delete: prisma.message.findUnique and the
\* check of the sender
DeleteMessageBegin(r, userId, id) ==
  LET input == [route |-> "DELETE /messages/:id", id |-> id]
  IN  /\ req[r].pc = "idle"
      /\ IF MessageRows(id) = {}
           THEN Reject(userId, input, 404, "MESSAGE_NOT_FOUND")
         ELSE \E message \in MessageRows(id) :
           IF message.senderId # userId
             THEN Reject(userId, input, 403, "FORBIDDEN")
           ELSE Await(r, [Frame("deleteMessage.delete", userId, input) EXCEPT
                            !.found = {message}])
      /\ UNCHANGED storedVars

\* prisma.message.delete; a message that is gone by now throws and the catch
\* answers 500
DeleteMessageDelete(r) ==
  LET id == req[r].input.id
  IN  /\ req[r].pc = "deleteMessage.delete"
      /\ IF MessageRows(id) = {}
           THEN Reply(r, 500, "DELETE_FAILED") /\ UNCHANGED messages
         ELSE /\ messages' = messages \ MessageRows(id)
              /\ Reply(r, 200, "MESSAGE_DELETED")
      /\ UNCHANGED <<now, stripe, generated, profiles, userPlans, dreams, payments, sessions,
                     ledger, accountVars, requests, chatMessages, comments,
                     uploads>>

chatAvailable_always(request, isSuperAdmin) == TRUE

\* the interpreter check of the chat routes:
\* !(!request.interpreterId && !isSuperAdmin)
chatAvailable(request, isSuperAdmin) ==
  request.interpreterId # NoId \/ isSuperAdmin

\* the request lookup of the chat routes: prisma.request.findUnique
ChatBegin(r, userId, input, next) ==
  IF RequestRows(input.id) = {}
    THEN Reject(userId, input, 404, "REQUEST_NOT_FOUND")
  ELSE \E request \in RequestRows(input.id) :
    Await(r, [Frame(next, userId, input) EXCEPT !.found = {request}])

\* the profile lookup of the chat routes, then the checks against the request
\* as the handler read it
ChatProfile(r, next) ==
  LET userId == req[r].userId
      role == RoleOf(userId)
      isSuperAdmin == role = "super_admin"
  IN  \E request \in req[r].found :
        LET isParticipant == \/ request.dreamerId = userId
                             \/ request.interpreterId = userId
        IN  IF ~isParticipant /\ ~isSuperAdmin
              THEN Reply(r, 403, "FORBIDDEN")
            ELSE IF ~chatAvailable(request, isSuperAdmin)
              THEN Reply(r, 403, "NO_INTERPRETER_ASSIGNED")
            ELSE Proceed(r, [req[r] EXCEPT !.pc = next, !.role = role])

\* GET /chat?request_id= up to the profile lookup
GetChatBegin(r, userId, requestId) ==
  LET input == [route |-> "GET /chat", id |-> requestId]
  IN  /\ req[r].pc = "idle"
      /\ IF requestId = Missing
           THEN Reject(userId, input, 400, "REQUEST_ID_REQUIRED")
         ELSE ChatBegin(r, userId, input, "getChat.profile")
      /\ UNCHANGED storedVars

GetChatProfile(r) ==
  /\ req[r].pc = "getChat.profile"
  /\ ChatProfile(r, "getChat.findMany")
  /\ UNCHANGED storedVars

\* prisma.chatMessage.findMany of the request
GetChatFindMany(r) ==
  /\ req[r].pc = "getChat.findMany"
  /\ Reply(r, 200, "CHAT")
  /\ UNCHANGED storedVars

\* POST /chat up to the profile lookup
PostChatBegin(r, userId, requestId, content) ==
  LET input == [route |-> "POST /chat", id |-> requestId, content |-> content]
  IN  /\ req[r].pc = "idle"
      /\ IF requestId = Missing \/ Falsy(content)
           THEN Reject(userId, input, 400, "REQUIRED")
         ELSE /\ RequestRows(requestId) # {} =>
                   generated.chatMessages
                     + InFlightAt({"postChat.profile", "postChat.create"})
                     < MaxChatRows
              /\ ChatBegin(r, userId, input, "postChat.profile")
      /\ UNCHANGED storedVars

PostChatProfile(r) ==
  /\ req[r].pc = "postChat.profile"
  /\ ChatProfile(r, "postChat.create")
  /\ UNCHANGED storedVars

\* prisma.chatMessage.create; a request or a sender that is gone by now
\* violates a foreign key and the catch answers 500
PostChatCreate(r) ==
  LET userId == req[r].userId
      requestId == req[r].input.id
  IN  /\ req[r].pc = "postChat.create"
      /\ IF RequestRows(requestId) = {} \/ userId \notin DOMAIN profiles
           THEN Reply(r, 500, "SEND_FAILED") /\ UNCHANGED chatMessages
         ELSE /\ chatMessages' = chatMessages \cup
                   {[id |-> GeneratedId("chatMessages"),
                     requestId |-> requestId,
                     senderId |-> userId, content |-> req[r].input.content]}
              /\ Reply(r, 200, "CHAT_MESSAGE_CREATED")
      /\ generated' = [generated EXCEPT !.chatMessages =
                         IF chatMessages' = chatMessages THEN @ ELSE @ + 1]
      /\ UNCHANGED <<now, stripe, profiles, userPlans, dreams, payments, sessions,
                     ledger, accountVars, requests, messages, comments,
                     uploads>>

----------------------------------------------------------------------------
(* Authentication of the content routes; comments *)

\* expiresIn '7d' of generateToken, in days
JWT_EXPIRES_IN == 7

\* a token as a request carries it in its Authorization header or auth_token
\* cookie: the payload, whether JWT_SECRET signed it, and the day it expires
CarriedToken(payload, signed, expiresAt) ==
  [payload |-> payload, signed |-> signed, expiresAt |-> expiresAt]

\* jwt.verify under JWT_SECRET: the payload of a token that is signed and has
\* not expired, and null (no payload) otherwise
verifyToken(token) ==
  IF token.signed /\ token.expiresAt > now THEN {token.payload} ELSE {}

\* requireAuth over the tokens a request carries (none or one): req.user, or
\* none when the middleware answers 401
requireAuth(carried) == UNION {verifyToken(token) : token \in carried}

\* the routes of the dreams, messages, comments, chat and requests routers
\* that are mounted behind requireAuth
AuthenticatedRoutes ==
  {"GET /dreams", "POST /dreams", "POST /dreams/:id/audio", "GET /dreams/stats",
   "GET /dreams/:id", "PATCH /dreams/:id", "DELETE /dreams/:id",
   "GET /messages", "POST /messages", "DELETE /messages/:id",
   "POST /comments", "GET /chat", "POST /chat",
   "GET /requests", "POST /requests", "GET /requests/:id",
   "PATCH /requests/:id"}

\* requireAuth answering 401: the handler of the route is not reached
Unauthenticated(route, carried) ==
  /\ requireAuth(carried) = {}
  /\ Reject(NoId, [route |-> route, carried |-> carried], 401,
            IF carried = {} THEN "AUTHENTICATION_REQUIRED"
            ELSE "INVALID_OR_EXPIRED_TOKEN")
  /\ UNCHANGED storedVars

\* GET /comments?dream_id=: mounted without requireAuth, the handler never
\* reads req.user; the response carries the comments of the dream
GetComments(carried, dreamId) ==
  LET input == [route |-> "GET /comments", id |-> dreamId, carried |-> carried]
  IN  /\ IF dreamId = Missing
           THEN resp' = Response(400, "DREAM_ID_REQUIRED")
         ELSE resp' = [status |-> 200, code |-> "COMMENTS",
                       rows |-> {c \in comments : c.dreamId = dreamId}]
      /\ call' = Call(NoId, input)
      /\ UNCHANGED <<req, storedVars>>

\* POST /comments; a dream_id that is no dream violates the foreign key
PostComment(userId, dreamId, content) ==
  LET input == [route |-> "POST /comments", id |-> dreamId,
                content |-> content]
  IN  /\ IF dreamId = Missing \/ Falsy(content)
           THEN Reject(userId, input, 400, "REQUIRED") /\ UNCHANGED comments
         ELSE IF DreamRows(dreamId) = {} \/ userId \notin DOMAIN profiles
           THEN Reject(userId, input, 500, "CREATE_FAILED")
                /\ UNCHANGED comments
         ELSE /\ generated.comments < MaxCommentRows
              /\ comments' = comments \cup
                   {[id |-> GeneratedId("comments"), dreamId |-> dreamId,
                     userId |-> userId, content |-> content]}
              /\ Reject(userId, input, 201, "COMMENT_CREATED")
      /\ generated' = [generated EXCEPT !.comments =
                         IF comments' = comments THEN @ ELSE @ + 1]
      /\ UNCHANGED <<now, stripe, profiles, userPlans, dreams, payments, sessions,
                     ledger, accountVars, requests, messages, chatMessages,
                     uploads>>

----------------------------------------------------------------------------
(* Reading dreams and requests; POST /requests *)

\* GET /dreams up to its findMany: the profile lookup
GetDreamsBegin(r, userId) ==
  LET input == Route("GET /dreams")
      role == RoleOf(userId)
  IN  /\ req[r].pc = "idle"
      /\ IF userId \notin DOMAIN profiles
           THEN Reject(userId, input, 404, "PROFILE_NOT_FOUND")
         ELSE IF role \notin Roles
           THEN Reject(userId, input, 403, "INVALID_ROLE")
         ELSE Await(r, [Frame("getDreams.findMany", userId, input) EXCEPT
                          !.role = role])
      /\ UNCHANGED storedVars

\* prisma.dream.findMany selected by the role the handler read
GetDreamsFindMany(r) ==
  LET userId == req[r].userId
      role == req[r].role
      all == BagToSet(dreams)
  IN  /\ req[r].pc = "getDreams.findMany"
      /\ IF role = "dreamer"
           THEN DiscloseReply(r, "DREAMS",
                              {d.id : d \in {e \in all : e.dreamerId = userId}})
         ELSE IF role = "interpreter"
           THEN DiscloseReply(r, "DREAMS",
                              {d.id : d \in {e \in all :
                                               \/ e.interpreterId = userId
                                               \/ e.interpreterId = NoId}})
         ELSE DiscloseReply(r, "DREAMS", {d.id : d \in all})
      /\ UNCHANGED storedVars

\* GET /dreams/:id up to the profile lookup: prisma.dream.findUnique
GetDreamBegin(r, userId, id) ==
  LET input == [route |-> "GET /dreams/:id", id |-> id]
  IN  /\ req[r].pc = "idle"
      /\ IF DreamRows(id) = {}
           THEN Reject(userId, input, 404, "DREAM_NOT_FOUND")
         ELSE \E dream \in DreamRows(id) :
           Await(r, [Frame("getDream.profile", userId, input) EXCEPT
                       !.found = {dream}])
      /\ UNCHANGED storedVars

\* the profile lookup of a GET /dreams/:id in flight and the access check on
\* the dream as the handler read it
GetDreamProfile(r) ==
  LET userId == req[r].userId
      isAdmin == RoleOf(userId) = "admin" \/ RoleOf(userId) = "super_admin"
  IN  /\ req[r].pc = "getDream.profile"
      /\ \E dream \in req[r].found :
           LET hasAccess == \/ dream.dreamerId = userId
                            \/ dream.interpreterId = userId
                            \/ isAdmin
           IN  IF ~hasAccess
                 THEN Reply(r, 403, "FORBIDDEN")
               ELSE DiscloseReply(r, "DREAM", {dream.id})
      /\ UNCHANGED storedVars

\* POST /requests; the request is created for the requester as its dreamer,
\* the response includes the dream with its content; a dream_id that is no
\* dream violates the foreign key
PostRequest(userId, dreamId, title) ==
  LET input == [route |-> "POST /requests", id |-> dreamId, title |-> title]
  IN  /\ IF dreamId = Missing \/ Falsy(title)
           THEN Reject(userId, input, 400, "REQUIRED") /\ UNCHANGED requests
         ELSE IF DreamRows(dreamId) = {} \/ userId \notin DOMAIN profiles
           THEN Reject(userId, input, 500, "INTERNAL") /\ UNCHANGED requests
         ELSE /\ generated.requests < MaxRequestRows
              /\ requests' = requests \cup
                   {[id |-> GeneratedId("requests"), dreamId |-> dreamId,
                     dreamerId |-> userId, interpreterId |-> NoId,
                     status |-> "open"]}
              /\ Disclose(userId, input, "REQUEST_CREATED", {dreamId})
              /\ UNCHANGED req
      /\ generated' = [generated EXCEPT !.requests =
                         IF requests' = requests THEN @ ELSE @ + 1]
      /\ UNCHANGED <<now, stripe, profiles, userPlans, dreams, payments, sessions,
                     ledger, accountVars, messages, chatMessages, comments,
                     uploads>>

\* GET /requests up to its findMany: the profile lookup
GetRequestsBegin(r, userId) ==
  /\ req[r].pc = "idle"
  /\ Await(r, [Frame("getRequests.findMany", userId, Route("GET /requests"))
                 EXCEPT !.role = RoleOf(userId)])
  /\ UNCHANGED storedVars

\* prisma.request.findMany: every request for an admin or a super_admin, else
\* those of which the requester is the dreamer or the interpreter
GetRequestsFindMany(r) ==
  LET userId == req[r].userId
      isAdmin == req[r].role = "admin" \/ req[r].role = "super_admin"
      rows == IF isAdmin THEN requests
              ELSE {q \in requests : \/ q.dreamerId = userId
                                     \/ q.interpreterId = userId}
  IN  /\ req[r].pc = "getRequests.findMany"
      /\ DiscloseReply(r, "REQUESTS", {q.dreamId : q \in rows})
      /\ UNCHANGED storedVars

\* GET /requests/:id up to the profile lookup: prisma.request.findUnique
GetRequestBegin(r, userId, id) ==
  LET input == [route |-> "GET /requests/:id", id |-> id]
  IN  /\ req[r].pc = "idle"
      /\ IF RequestRows(id) = {}
           THEN Reject(userId, input, 404, "REQUEST_NOT_FOUND")
         ELSE \E requestData \in RequestRows(id) :
           Await(r, [Frame("getRequest.profile", userId, input) EXCEPT
                       !.found = {requestData}])
      /\ UNCHANGED storedVars

\* the profile lookup of a GET /requests/:id in flight and the access check
\* on the request as the handler read it
GetRequestProfile(r) ==
  LET userId == req[r].userId
      isAdmin == RoleOf(userId) = "admin" \/ RoleOf(userId) = "super_admin"
  IN  /\ req[r].pc = "getRequest.profile"
      /\ \E requestData \in req[r].found :
           LET hasAccess == \/ isAdmin
                            \/ requestData.dreamerId = userId
                            \/ requestData.interpreterId = userId
           IN  IF ~hasAccess
                 THEN Reply(r, 403, "FORBIDDEN")
               ELSE DiscloseReply(r, "REQUEST", {requestData.dreamId})
      /\ UNCHANGED storedVars

----------------------------------------------------------------------------
(* The voice recording of a dream *)

\* POST /dreams/:id/audio up to its update: the checks of the body, then
\* writeFile under the requester's id
UploadAudioBegin(r, userId, id, body) ==
  LET input == [route |-> "POST /dreams/:id/audio", id |-> id, body |-> body]
  IN  /\ req[r].pc = "idle"
      /\ IF \/ ~Has(body, "audio")
            \/ ~JsonTruthy(body.audio)
            \/ body.audio.typeof # "string"
            \/ ~startsWithDataAudio(body.audio.value)
           THEN Reject(userId, input, 400, "INVALID_AUDIO_DATA")
                /\ UNCHANGED uploads
         ELSE IF matchesAudio(body.audio.value) = {}
           THEN Reject(userId, input, 400, "INVALID_AUDIO_FORMAT")
                /\ UNCHANGED uploads
         ELSE \E matches \in matchesAudio(body.audio.value) :
           LET filename == AudioFile("", userId, DateNow, matches.audioType)
           IN  /\ uploads' = uploads \cup {filename}
               /\ Await(r, [Frame("uploadAudio.update", userId, input) EXCEPT
                              !.data = {filename}])
      /\ UNCHANGED <<now, stripe, generated, profiles, userPlans, dreams, payments, sessions,
                     ledger, accountVars, requests, messages, chatMessages,
                     comments>>

\* prisma.dream.update sets the columns of the dream with the id; an update of
\* no row throws and the catch answers 500
UploadAudioUpdate(r) ==
  LET id == req[r].input.id
      body == req[r].input.body
      duration == IF Has(body, "duration") /\ body.duration # <<>>
                    THEN ParseInt(body.duration) ELSE NULL
  IN  /\ req[r].pc = "uploadAudio.update"
      /\ IF DreamRows(id) = {}
           THEN Reply(r, 500, "AUDIO_UPLOAD_FAILED") /\ UNCHANGED dreams
         ELSE \E dream \in DreamRows(id) :
           /\ dreams' = (dreams (-) SetToBag({dream})) (+)
                SetToBag({[dream EXCEPT !.audioUrl = req[r].data,
                                        !.audioDuration = duration]})
           /\ DiscloseReply(r, "AUDIO_UPLOADED", {id})
      /\ UNCHANGED <<now, stripe, generated, profiles, userPlans, payments, sessions, ledger,
                     accountVars, contentVars>>

----------------------------------------------------------------------------
(* Stored states *)

\* the state after the migration and the seed: the seeded profiles and plans
Init ==
  /\ now = 0
  /\ stripe = TRUE
  /\ generated = GeneratedNone
  /\ profiles = SeededProfiles
  /\ plans = SeededPlans
  /\ userPlans = {}
  /\ dreams = EmptyBag
  /\ payments = EmptyBag
  /\ sessions = [i \in DOMAIN SessionIds |-> {}]
  /\ req = [r \in ReqIds |-> IdleFrame]
  /\ resp = NoResponse
  /\ call = NoCall
  /\ ledger = [k \in SubscriptionKeys |-> EmptyBag]
  /\ tokens = {}
  /\ requests = {}
  /\ messages = {}
  /\ chatMessages = {}
  /\ comments = {}
  /\ uploads = {}

\* the dream of u1 as POST /dreams stores it after POST /plans/subscribe, and
\* the request u1 opened for it by POST /requests
SeededSubscription ==
  [userId |-> "u1", planId |-> "p2", startedAt |-> 0,
   expiresAt |-> Plans["p2"].durationDays * Day, isActive |-> TRUE,
   lettersUsed |-> countContentLetters(SevenLetters), audioMinutesUsed |-> 0]
\* the row tx.dream.create writes for that dream, and the same row under its
\* primary key, by which the dream routes address it
CreatedDream ==
  [dreamerId |-> "u1", title |-> <<"b">>, content |-> SevenLetters,
   status |-> "new", interpreterId |-> NoId, interpretation |-> NoId,
   notes |-> NoId, createdAt |-> 0]
\* audioUrl is empty when the column is null
SeededDream ==
  [id |-> 1, audioUrl |-> {}, audioDuration |-> NULL] @@ CreatedDream
SeededRequest ==
  [id |-> 1, dreamId |-> 1, dreamerId |-> "u1", interpreterId |-> NoId,
   status |-> "open"]

\* the stored state once u1 has subscribed and created a dream
DreamStored(dream) ==
  /\ now = 0
  /\ stripe = TRUE
  /\ profiles = [SeededProfiles EXCEPT !["u1"].currentPlanId = "p2"]
  /\ plans = SeededPlans
  /\ userPlans = {SeededSubscription}
  /\ dreams = SetToBag({dream})
  /\ payments = SetToBag({PaymentRow("u1", "p2", "manual", <<"SUB", 0>>)})
  /\ sessions = [i \in DOMAIN SessionIds |-> {}]
  /\ req = [r \in ReqIds |-> IdleFrame]
  /\ resp = Response(201, "CREATED")
  /\ call = Call("u1", Route("POST /dreams"))
  /\ ledger = [k \in SubscriptionKeys |->
                 IF k = <<"u1", "p2">> THEN SetToBag({SevenLetters})
                 ELSE EmptyBag]
  /\ tokens = {}
  /\ messages = {}
  /\ chatMessages = {}
  /\ comments = {}
  /\ uploads = {}

InitAccess ==
  /\ DreamStored(SeededDream)
  /\ requests = {SeededRequest}
  /\ generated = [GeneratedNone EXCEPT !.requests = 1]

\* the tokens of the seeded users once each has logged in
SeededTokens == {generateToken(u, SeededRole[u]) : u \in Users}

\* the state after the seed once the seeded users have logged in
LoggedIn ==
  /\ now = 0
  /\ generated = GeneratedNone
  /\ profiles = SeededProfiles
  /\ plans = SeededPlans
  /\ userPlans = {}
  /\ dreams = EmptyBag
  /\ payments = EmptyBag
  /\ sessions = [i \in DOMAIN SessionIds |-> {}]
  /\ req = [r \in ReqIds |-> IdleFrame]
  /\ resp = Response(200, "LOGGED_IN")
  /\ call = Call(NoId, [route |-> "POST /auth/login", email |-> "e4",
                        passwordValid |-> TRUE])
  /\ ledger = [k \in SubscriptionKeys |-> EmptyBag]
  /\ tokens = SeededTokens
  /\ requests = {}
  /\ messages = {}
  /\ chatMessages = {}
  /\ comments = {}
  /\ uploads = {}

\* with a Stripe client
InitLoggedIn == stripe = TRUE /\ LoggedIn

\* with STRIPE_SECRET_KEY set or not
InitPayments == stripe \in BOOLEAN /\ LoggedIn

----------------------------------------------------------------------------
(* Dreams, subscriptions and payments: the specifications *)

\* the steps of the POST /dreams requests in flight; Faults is the set of
\* outcomes of a write in the storage layer (TRUE is a failure)
PostDreamsStep(Faults) ==
  \E r \in ReqIds :
    \/ ReadSubscription(r)
    \/ CountDreams(r)
    \/ \E storageFails \in Faults : TxDreamCreate(r, storageFails)
    \/ \E storageFails \in Faults : TxUsageUpdate(r, storageFails)

\* a POST /dreams request of one of the users arrives
DreamArrival(slots, users) ==
  \E r \in slots, userId \in users, body \in Bodies :
    PostDreamsBegin(r, userId, body.title, body.description, body.audioMinutes)

\* a POST /plans/subscribe request arrives while the payments stored and those
\* about to be stored are fewer than cap
SubscribeArrival(slots, cap) ==
  /\ BagCardinality(payments) + InFlightAt({"subscribe.transaction"}) < cap
  /\ \E r \in slots, input \in SubscribeInputs :
       SubscribeBegin(r, input[1], input[2])

\* the transaction of a POST /plans/subscribe in flight
SubscribeStep(Faults) ==
  \E r \in ReqIds, storageFails \in Faults : SubscribeTransaction(r, storageFails)

\* a POST /payments/create-checkout-session request arrives
CheckoutArrival(slots) ==
  \E r \in slots, input \in CheckoutInputs :
    CreateCheckoutSessionBegin(r, input[1], input[2])

\* the steps of the checkouts in flight
CheckoutStep ==
  \E r \in ReqIds :
    \/ CreateCheckoutSessionProfile(r)
    \/ CreateCheckoutSessionCreate(r)

\* Stripe delivers an event of a session
WebhookArrival(Faults, Events) ==
  \E event \in Events, i \in DOMAIN SessionIds, storageFails \in Faults :
    Webhook(event[1], event[2], i, storageFails)

\* the POST /dreams and POST /plans/subscribe requests are handled one after
\* the other; the clock advances between them
Next ==
  \/ NoneInFlight /\ DreamArrival({"r1"}, Users)
  \/ NoneInFlight /\ SubscribeArrival({"r1"}, MaxPaymentRows)
  \/ NoneInFlight /\ Tick
  \/ PostDreamsStep(BOOLEAN)
  \/ SubscribeStep(BOOLEAN)

Spec == Init /\ [][Next]_vars

\* as Spec, with a storage layer that never fails
NextReliable ==
  \/ NoneInFlight /\ DreamArrival({"r1"}, Users)
  \/ NoneInFlight /\ SubscribeArrival({"r1"}, MaxPaymentRows)
  \/ NoneInFlight /\ Tick
  \/ PostDreamsStep({FALSE})
  \/ SubscribeStep({FALSE})

SpecReliable == Init /\ [][NextReliable]_vars

\* the requests of the subscriber and of an admin arriving within one day are
\* handled concurrently, interleaved at their awaits; the activations are
\* those that succeed
NextConc ==
  \/ DreamArrival(ReqIds, {"u1", "u3"})
  \/ SubscribeArrival(ReqIds, MaxPaymentRows)
  \/ PostDreamsStep(BOOLEAN)
  \/ SubscribeStep({FALSE})

SpecConc == Init /\ [][NextConc]_vars

\* the subscriptions of a user over the days, handled one after the other by
\* a storage layer that never fails
NextPlans ==
  \/ NoneInFlight /\ SubscribeArrival({"r1"}, MaxActivations)
  \/ NoneInFlight /\ Tick
  \/ NoneInFlight /\ Elapse
  \/ SubscribeStep({FALSE})

SpecPlans == Init /\ [][NextPlans]_vars

\* the bodies of the PATCH /plans/:id requests
PlanBodies ==
  <<[durationDays |-> 3], [isActive |-> JsonBoolean(FALSE)],
   [isActive |-> JsonBoolean(TRUE)], [isActive |-> JsonNull],
   [durationDays |-> 20, letterQuota |-> NULL, maxDreams |-> NULL,
    isActive |-> JsonBoolean(FALSE)],
   [name |-> "p2"]>>

\* the bodies of the POST /plans requests, one after the other
NewPlanBodies ==
  <<[name |-> "p3", price |-> 1, currency |-> "usd", durationDays |-> 5],
   [name |-> "p3", price |-> 1, currency |-> "usd", durationDays |-> 5,
    letterQuota |-> NULL, maxDreams |-> 1, isActive |-> JsonNull],
   [name |-> "p1", price |-> 1, currency |-> "usd", durationDays |-> 5],
   [name |-> "", price |-> 1, currency |-> "usd", durationDays |-> 5],
   [name |-> "p3", currency |-> "usd", durationDays |-> 5],
   [name |-> "p3", price |-> 1, currency |-> "", durationDays |-> 5],
   [name |-> "p3", price |-> 1, currency |-> "usd", durationDays |-> 0]>>

\* the steps of the scripts and of the plan routes in flight
PlanStep ==
  \E r \in ReqIds :
    \/ PatchPlanUpdate(r)
    \/ CreateTrialPlanCreate(r)
    \/ AddFreePlanCreate(r)
    \/ AddFreePlanUsers(r)
    \/ AddFreePlanFind(r)
    \/ AddFreePlanGrant(r)

\* checkouts, plan edits, deliveries of Stripe and the deletion of the
\* account handled concurrently, interleaved at their awaits
NextPayments ==
  \/ CheckoutArrival(ReqIds)
  \/ CheckoutStep
  \/ \E r \in ReqIds, i \in DOMAIN PlanBodies :
       PatchPlanBegin(r, generateToken("u4", "super_admin"), "p1",
                      PlanBodies[i])
  \/ \E r \in ReqIds : PatchPlanUpdate(r)
  \/ WebhookArrival(BOOLEAN, WebhookEvents)
  \/ DeleteAccount("u1")
  \/ \E r \in ReqIds : SeedBegin(r)
  \/ SeedStep

SpecPayments == InitPayments /\ [][NextPayments]_vars

----------------------------------------------------------------------------
(* Accounts: the specifications *)

ProfileBodies == {[fullName |-> "renamed", role |-> "super_admin"]}

\* the bodies of the PATCH /admin/users/:id requests, one after the other
UserBodies ==
  <<[role |-> JsonString("admin")], [role |-> JsonString("dreamer")],
    [role |-> JsonString("owner")], [fullName |-> JsonString("renamed")],
    [fullName |-> JsonNumber(Integer(1))], [fullName |-> JsonObject],
    [fullName |-> JsonArray], [fullName |-> JsonNull],
    [isAvailable |-> JsonBoolean(FALSE)],
    [isAvailable |-> JsonString("no")],
    [totalInterpretations |-> JsonString(<<"7">>)],
    [totalInterpretations |-> JsonString(<<"x">>)],
    [totalInterpretations |->
       JsonString(<<"7", ".", "9", "9", "9", "9", "9", "9", "9", "9", "9",
                    "9", "9", "9", "9", "9", "9", "9", "9", "9", "9">>)],
    [totalInterpretations |-> JsonString(<<"1", "e", "1", "0">>)],
    [totalInterpretations |-> JsonObject],
    [rating |-> JsonNumber(Integer(9))], [rating |-> JsonNumber(Integer(-2))],
    [rating |->
       JsonString(<<" ", "9", ".", "0", "0", "4", "9", "9", "9", "9", "9",
                    "9", "9", "9", "9", "9", "9", "9", "9", "9", "9", "9",
                    " ">>)],
    [rating |-> JsonNumber(Integer(10))],
    [bio |-> JsonString("text")]>>

\* the bodies of the PATCH /profile/availability requests
AvailabilityBodies ==
  <<[isAvailable |-> JsonBoolean(FALSE)], [isAvailable |-> JsonBoolean(TRUE)],
    [isAvailable |-> JsonString("no")], [bio |-> JsonString("text")]>>

\* the bodies among them that give a role or a name
RoleBodies == SubSeq(UserBodies, 1, 4)

\* the tokens of u1 and u4 among those issued
AdminTokens == {token \in tokens : token.userId \in {"u1", "u4"}}

\* a POST /auth/register request arrives while an id is left for its user
RegisterArrival(slots, emails, roles) ==
  /\ generated.users < Len(NewUserIds)
  /\ \E r \in slots, email \in emails, fullName \in {Undefined, "named"},
        requested \in roles :
       RegisterBegin(r, email, fullName, requested)

\* a POST /auth/login request arrives
LoginArrival(slots, emails) ==
  \E r \in slots, email \in emails, passwordValid \in BOOLEAN :
    LoginBegin(r, email, passwordValid)

\* the steps of the registrations and logins in flight
AuthStep(Faults) ==
  \E r \in ReqIds :
    \/ \E storageFails \in Faults : RegisterTransaction(r, storageFails)
    \/ LoginVerify(r)

\* registration while the scripts run, the trial plan is patched and days
\* pass, one request after the other
NextRegistration ==
  \/ NoneInFlight /\ RegisterArrival({"r1"}, Emails, Roles \cup {Undefined})
  \/ NoneInFlight /\ LoginArrival({"r1"}, Emails)
  \/ NoneInFlight /\ CreateTrialPlanBegin("r1")
  \/ NoneInFlight /\ AddFreePlanBegin("r1")
  \/ NoneInFlight /\ \E token \in tokens, i \in DOMAIN PlanBodies,
                           plan \in {p \in plans : p.isTrial} :
                        PatchPlanBegin("r1", token, plan.id, PlanBodies[i])
  \/ NoneInFlight /\ Tick
  \/ AuthStep(BOOLEAN)
  \/ PlanStep

SpecRegistration == Init /\ [][NextRegistration]_vars

\* registrations handled concurrently, interleaved at their awaits, while
\* users log in and the trial plan is created
NextRegistrationConc ==
  \/ RegisterArrival(ReqIds, {"e1", "e5"}, {Undefined, "interpreter", "admin"})
  \/ \E r \in ReqIds, email \in {"e1", "e5"} : LoginBegin(r, email, TRUE)
  \/ \E r \in ReqIds : CreateTrialPlanBegin(r)
  \/ \E r \in ReqIds : CreateTrialPlanCreate(r)
  \/ AuthStep({FALSE})

SpecRegistrationConc == Init /\ [][NextRegistrationConc]_vars

\* the steps of the admin routes in flight
AdminStep ==
  \E r \in ReqIds :
    \/ MakeSuperAdminUpdate(r)
    \/ PatchUserFind(r)
    \/ PatchUserUpdate(r)

\* the routes that write a profile and the routes that manage the plans, one
\* request after the other
NextRoles ==
  \/ NoneInFlight /\ RegisterArrival({"r1"}, Emails, Roles \cup {Undefined})
  \/ NoneInFlight /\ LoginArrival({"r1"}, Emails)
  \/ NoneInFlight /\ \E token \in tokens, body \in ProfileBodies :
                        UpdateProfile(token, body)
  \/ NoneInFlight /\ \E token \in tokens, i \in DOMAIN AvailabilityBodies :
                        /\ token.userId = "u1"
                        /\ UpdateAvailability(token, AvailabilityBodies[i])
  \/ NoneInFlight /\ \E token \in tokens, userId \in {Undefined, "u1", "u9"} :
                        MakeSuperAdminBegin("r1", token, userId)
  \/ NoneInFlight /\ \E token \in tokens, targetId \in {"u1", "u9"},
                           i \in DOMAIN RoleBodies :
                        PatchUserBegin("r1", token, targetId, RoleBodies[i])
  \/ AuthStep(BOOLEAN)
  \/ AdminStep

SpecRoles == Init /\ [][NextRoles]_vars

\* the bodies among them that give a duration or withdraw a plan
ActiveBodies == SubSeq(PlanBodies, 1, 2)

\* the admin routes and the routes that manage the plans, one request after
\* the other, by the tokens the seeded dreamer and super_admin logged in with
NextAdmin ==
  \/ NoneInFlight /\ \E token \in AdminTokens, userId \in {Undefined, "u1"} :
                        MakeSuperAdminBegin("r1", token, userId)
  \/ NoneInFlight /\ \E token \in AdminTokens, targetId \in {"u1", "u9"},
                           i \in DOMAIN UserBodies :
                        PatchUserBegin("r1", token, targetId, UserBodies[i])
  \/ NoneInFlight /\ \E token \in AdminTokens, i \in DOMAIN NewPlanBodies :
                        PostPlan(token, NewPlanBodies[i])
  \/ NoneInFlight /\ \E token \in AdminTokens, id \in {"p1", "p9"},
                           i \in DOMAIN ActiveBodies :
                        PatchPlanBegin("r1", token, id, ActiveBodies[i])
  \/ AdminStep
  \/ \E r \in ReqIds : PatchPlanUpdate(r)

SpecAdmin == InitLoggedIn /\ [][NextAdmin]_vars

----------------------------------------------------------------------------
(* Content: the specifications *)

DreamIds == {1, 2}
RequestIds == {1, 2}
DreamBodies ==
  {[interpreter_id |-> "u2"], [status |-> "interpreted"],
   [status |-> "pending"], [x \in {} |-> Undefined]}
RequestBodies ==
  {[interpreterId |-> "u2"], [interpreterId |-> ""],
   [status |-> "completed"], [status |-> "bogus"],
   [x \in {} |-> Undefined]}

\* a recording whose data holds a line separator, which . does not match
BrokenRecording ==
  JsonString(DataUrl(<<"a", "u", "d", "i", "o">>, <<"w", "e", "b", "m">>,
                     <<"b", "a", "s", "e", "6", "4">>, <<"A", "U+2028", "A">>))

\* a recording as a message or an upload carries it
Recording ==
  JsonString(DataUrl(<<"a", "u", "d", "i", "o">>, <<"w", "e", "b", "m">>,
                     <<"b", "a", "s", "e", "6", "4">>, <<"A", "A", "A", "A">>))

\* (content, audio) of the POST /messages requests, one after the other: a
\* text, neither, a recording with and without a text, an audio that is no
\* recording, a recording the pattern does not match, an audio that is a
\* number, an object or an array, and an empty audio
MessageBodies ==
  <<<<"text", {}>>, <<Undefined, {}>>,
    <<"text", {Recording}>>, <<Undefined, {Recording}>>,
    <<Undefined, {JsonString(<<"h", "i">>)}>>,
    <<Undefined, {BrokenRecording}>>,
    <<"text", {JsonNumber(Integer(5))}>>,
    <<"text", {JsonObject}>>, <<Undefined, {JsonObject}>>,
    <<Undefined, {JsonArray}>>, <<Undefined, {JsonNull}>>,
    <<"", {JsonString(<<>>)}>>>>

\* who addresses which row: every user the stored row, u1 also a row that is
\* not stored or no row at all
Addressing(ids) ==
  {<<userId, id>> : userId \in Users, id \in {1}}
    \cup {<<"u1", id>> : id \in ids \ {1}}

\* a request to the dream, request, message and chat routes arrives
AccessArrival(slots) ==
  \E r \in slots :
    \/ \E to \in Addressing(DreamIds), body \in DreamBodies :
         PatchDreamBegin(r, to[1], to[2], body)
    \/ \E to \in Addressing(DreamIds) : DeleteDreamBegin(r, to[1], to[2])
    \/ \E to \in Addressing(RequestIds), body \in RequestBodies :
         PatchRequestBegin(r, to[1], to[2], body)
    \/ \E to \in Addressing(DreamIds \cup {Missing}) :
         GetMessagesBegin(r, to[1], to[2])
    \/ \E to \in Addressing(DreamIds \cup {Missing}),
          content \in {"text", Undefined} :
         PostMessageBegin(r, to[1], to[2], content, {})
    \/ \E userId \in Users, id \in 1..MaxMessageRows :
         DeleteMessageBegin(r, userId, id)
    \/ \E to \in Addressing(RequestIds \cup {Missing}) :
         GetChatBegin(r, to[1], to[2])
    \/ \E to \in Addressing(RequestIds \cup {Missing}),
          content \in {"text", Undefined} :
         PostChatBegin(r, to[1], to[2], content)

\* the steps of the requests to those routes in flight; none of them carries
\* a recording
AccessStep ==
  \E r \in ReqIds :
    \/ PatchDreamProfile(r)
    \/ PatchDreamUpdate(r)
    \/ DeleteDreamDelete(r)
    \/ PatchRequestProfile(r)
    \/ PatchRequestUpdate(r)
    \/ GetMessagesProfile(r)
    \/ GetMessagesFindMany(r)
    \/ PostMessageCreate(r)
    \/ DeleteMessageDelete(r)
    \/ GetChatProfile(r)
    \/ GetChatFindMany(r)
    \/ PostChatProfile(r)
    \/ PostChatCreate(r)

\* the requests to the dream, request, message and chat routes, one after
\* the other, and the interpreter deleting the account
NextAccess ==
  \/ NoneInFlight /\ AccessArrival({"r1"})
  \/ NoneInFlight /\ DeleteAccount("u2")
  \/ AccessStep

SpecAccess == InitAccess /\ [][NextAccess]_vars

\* what the requests carry: no token, a token JWT_SECRET did not sign, an
\* expired token, and the tokens issued to u1, u2 and u4 at their login
Credentials ==
  {{},
   {CarriedToken(generateToken("u1", "dreamer"), FALSE, JWT_EXPIRES_IN * Day)},
   {CarriedToken(generateToken("u1", "dreamer"), TRUE, 0)},
   {CarriedToken(generateToken("u1", "dreamer"), TRUE, JWT_EXPIRES_IN * Day)},
   {CarriedToken(generateToken("u2", "interpreter"), TRUE, JWT_EXPIRES_IN * Day)},
   {CarriedToken(generateToken("u4", "super_admin"), TRUE, JWT_EXPIRES_IN * Day)}}

\* the requests to the content routes, with and without a valid token, one
\* after the other
NextAuthn ==
  \/ NoneInFlight /\ \E route \in AuthenticatedRoutes, carried \in Credentials :
                        Unauthenticated(route, carried)
  \/ NoneInFlight /\ \E carried \in Credentials,
                        dreamId \in DreamIds \cup {Missing} :
                        GetComments(carried, dreamId)
  \/ NoneInFlight /\ \E carried \in Credentials :
       \E user \in requireAuth(carried) :
         \/ \E dreamId \in DreamIds \cup {Missing},
               content \in {"text", Undefined} :
              PostComment(user.userId, dreamId, content)
         \/ \E dreamId \in DreamIds : GetMessagesBegin("r1", user.userId, dreamId)
         \/ DeleteDreamBegin("r1", user.userId, 1)
  \/ \E r \in ReqIds :
       \/ GetMessagesProfile(r)
       \/ GetMessagesFindMany(r)
       \/ DeleteDreamDelete(r)

SpecAuthn == InitAccess /\ [][NextAuthn]_vars

\* the values a PATCH /dreams/:id body may give each field
PatchValues ==
  [status |-> {"", "new", "interpreted", "pending"},
   interpretation |-> {"", "text"},
   notes |-> {"", "note"},
   interpreter_id |-> {"u2"}]

\* the bodies of the PATCH /dreams/:id requests: any of the four fields, each
\* with any of its values
PatchBodies ==
  UNION {{body \in [fields -> UNION {PatchValues[f] : f \in fields}] :
            \A f \in fields : body[f] \in PatchValues[f]}
           : fields \in SUBSET DOMAIN PatchValues}

\* bodies with a field the handler does not read
TitleBodies == {[title |-> "retitled"], [title |-> "retitled", notes |-> ""]}

\* the requests that update the stored dream, one after the other
NextDreamUpdate ==
  \/ NoneInFlight /\ \E userId \in Users, body \in PatchBodies \cup TitleBodies :
                        PatchDreamBegin("r1", userId, 1, body)
  \/ NoneInFlight /\ \E body \in PatchBodies :
                        PatchDreamBegin("r1", "u1", 2, body)
  \/ \E r \in ReqIds : PatchDreamProfile(r) \/ PatchDreamUpdate(r)

SpecDreamUpdate == InitAccess /\ [][NextDreamUpdate]_vars

\* the requests that read dreams and requests, create requests and assign
\* the interpreter of the dream, one after the other
NextReading ==
  \/ NoneInFlight /\ \E userId \in Users : GetDreamsBegin("r1", userId)
  \/ NoneInFlight /\ \E to \in Addressing(DreamIds) :
                        GetDreamBegin("r1", to[1], to[2])
  \/ NoneInFlight /\ \E to \in Addressing(DreamIds \cup {Missing}),
                           title \in {"title", Undefined} :
                        PostRequest(to[1], to[2], title)
  \/ NoneInFlight /\ \E userId \in Users : GetRequestsBegin("r1", userId)
  \/ NoneInFlight /\ \E userId \in Users, id \in 1..MaxRequestRows :
                        GetRequestBegin("r1", userId, id)
  \/ NoneInFlight /\ \E userId \in Users :
                        PatchDreamBegin("r1", userId, 1, [interpreter_id |-> "u2"])
  \/ \E r \in ReqIds :
       \/ GetDreamsFindMany(r)
       \/ GetDreamProfile(r)
       \/ GetRequestsFindMany(r)
       \/ GetRequestProfile(r)
       \/ PatchDreamProfile(r)
       \/ PatchDreamUpdate(r)

SpecReading == InitAccess /\ [][NextReading]_vars

\* the bodies of the uploads, one after the other: a recording without a
\* duration, with one and with an empty one, a subtype that is no word, a type
\* that only starts with audio, a data URL that is no base64, a data URL that
\* is no audio, an empty audio, a recording with a line separator in its
\* data, an audio that is a number, an object and an array, and no audio
AudioBodies ==
  LET audio == <<"a", "u", "d", "i", "o">>
      base64 == <<"b", "a", "s", "e", "6", "4">>
      data == <<"A", "A", "A", "A">>
  IN  <<[audio |-> Recording],
       [audio |-> Recording, duration |-> <<"5">>],
       [audio |-> Recording, duration |-> <<>>],
       [audio |-> JsonString(DataUrl(audio, <<"x", "-", "w", "a", "v">>,
                                     base64, data))],
       [audio |-> JsonString(DataUrl(audio \o <<"b", "o", "o", "k">>, <<"x">>,
                                     base64, data))],
       [audio |-> JsonString(DataUrl(audio, <<"w", "e", "b", "m">>,
                                     <<"u", "t", "f", "8">>, data))],
       [audio |-> JsonString(DataUrl(<<"t", "e", "x", "t">>,
                                     <<"p", "l", "a", "i", "n">>, base64, data))],
       [audio |-> JsonString(<<>>)],
       [audio |-> BrokenRecording],
       [audio |-> JsonNumber(Integer(5))],
       [audio |-> JsonObject],
       [audio |-> JsonArray],
       [duration |-> <<"5">>]>>

\* the dreamer and an interpreter upload to the stored dream and to a dream
\* that is not stored; the admin assigns the interpreter, and the dreamer
\* sends messages with and without a recording; one request after the other
NextAudio ==
  \/ NoneInFlight /\ Elapse
  \/ NoneInFlight /\ \E userId \in {"u1", "u2"}, id \in DreamIds,
                           i \in DOMAIN AudioBodies :
                        UploadAudioBegin("r1", userId, id, AudioBodies[i])
  \/ NoneInFlight /\ PatchDreamBegin("r1", "u3", 1, [interpreter_id |-> "u2"])
  \/ NoneInFlight /\ \E i \in DOMAIN MessageBodies :
                        PostMessageBegin("r1", "u1", 1, MessageBodies[i][1],
                                         MessageBodies[i][2])
  \/ \E r \in ReqIds :
       \/ UploadAudioUpdate(r)
       \/ PatchDreamProfile(r)
       \/ PatchDreamUpdate(r)
       \/ PostMessageWriteFile(r)
       \/ PostMessageCreate(r)

SpecAudio == InitAccess /\ [][NextAudio]_vars

\* requests to the content routes handled concurrently, interleaved at their
\* awaits, while accounts are deleted
NextAccessConc ==
  \/ \E r \in ReqIds :
       \/ \E userId \in {"u1", "u3"} :
            PatchDreamBegin(r, userId, 1, [interpreter_id |-> "u2"])
       \/ DeleteDreamBegin(r, "u1", 1)
       \/ \E userId \in {"u1", "u3"} :
            PatchRequestBegin(r, userId, 1, [interpreterId |-> "u2"])
       \/ PostMessageBegin(r, "u1", 1, "text", {Recording})
       \/ PostMessageBegin(r, "u2", 1, "text", {})
       \/ \E userId \in {"u1", "u2"} : DeleteMessageBegin(r, userId, 1)
       \/ \E userId \in {"u1", "u4"} : GetMessagesBegin(r, userId, 1)
       \/ \E userId \in {"u1", "u4"} : GetChatBegin(r, userId, 1)
       \/ \E userId \in {"u2", "u4"} : PostChatBegin(r, userId, 1, "text")
  \/ AccessStep
  \/ \E r \in ReqIds : PostMessageWriteFile(r)
  \/ \E userId \in {"u1", "u2"} : DeleteAccount(userId)

SpecAccessConc == InitAccess /\ [][NextAccessConc]_vars

----------------------------------------------------------------------------
(* Vocabulary of the properties *)

\* the number of logical characters (code points) of a string: its code
\* units, less the low surrogates that complete a surrogate pair
CodePointLength(s) ==
  Cardinality({i \in 1..Len(s) : ~(s[i] = "l" /\ i > 1 /\ s[i - 1] = "h")})

RECURSIVE SumLetters(_)
\* the sum of the code point lengths of a bag of descriptions
SumLetters(bag) ==
  IF BagToSet(bag) = {} THEN 0
  ELSE LET d == CHOOSE e \in BagToSet(bag) : TRUE
       IN  bag[d] * CodePointLength(d)
             + SumLetters([e \in BagToSet(bag) \ {d} |-> bag[e]])

Privileged(userId) == RoleOf(userId) \in {"admin", "super_admin"}

\* the plan of a subscription
PlanOf(planId) == CHOOSE p \in plans : p.id = planId

\* the rows that are active and unexpired
Qualifying(userId) ==
  {s \in userPlans : s.userId = userId /\ s.isActive = TRUE
                       /\ (s.expiresAt = NULL \/ s.expiresAt > now)}

\* the effective subscriptions: the most recently started qualifying rows
Effective(userId) ==
  {s \in Qualifying(userId) : \A o \in Qualifying(userId) : o.startedAt <= s.startedAt}

\* the number of dreams of a user created at or after an instant
DreamsSince(table, userId, instant) ==
  LET rows == {d \in BagToSet(table) : d.dreamerId = userId /\ d.createdAt >= instant}
  IN  BagCardinality([d \in rows |-> table[d]])

\* a POST /dreams request is being handled
Handling(r) == req[r].pc \in {"subscription", "count", "tx", "txUpdate"}

\* the handler in a slot takes a step, and the step is its last
Steps(r) == req'[r].pc # req[r].pc
Returns(r) == req[r].pc # "idle" /\ req'[r].pc = "idle"

----------------------------------------------------------------------------
(* C1 *)

\* C1: while a POST /dreams request of a requester who is neither admin nor
\* super_admin and has no effective subscription is being handled, it is at
\* the subscription lookup, and its next step answers 402
\* NO_ACTIVE_SUBSCRIPTION and changes neither the dreams nor the usage
\* counters.
C1_NoSubscriptionDenied ==
  [][\A r \in ReqIds :
       (Handling(r) /\ ~Privileged(req[r].userId)
          /\ Qualifying(req[r].userId) = {})
       => /\ req[r].pc = "subscription"
          /\ Steps(r) =>
               /\ Returns(r)
               /\ resp' = Response(402, "NO_ACTIVE_SUBSCRIPTION")
               /\ UNCHANGED <<dreams, userPlans, ledger>>]_vars

\* a request was denied for want of a subscription while a row of a
\* non-privileged user is active but expired
C1_Witness ==
  /\ resp = Response(402, "NO_ACTIVE_SUBSCRIPTION")
  /\ \E s \in userPlans :
       /\ ~Privileged(s.userId)
       /\ s.isActive /\ s.expiresAt # NULL /\ s.expiresAt <= now
       /\ Qualifying(s.userId) = {}

----------------------------------------------------------------------------
(* C2 *)

\* C2: a POST /dreams request with a title and a description of a requester
\* whose role is admin or super_admin ends with 201 and with the dream
\* created.
C2_AdminBypass ==
  [][\A r \in ReqIds :
       (Handling(r) /\ Returns(r) /\ Privileged(req[r].userId))
       => /\ resp' = Response(201, "CREATED")
          /\ BagCardinality(dreams') = BagCardinality(dreams) + 1]_vars

----------------------------------------------------------------------------
(* C3 *)

\* C3: for every subscription, lettersUsed is the sum of the code point
\* lengths of the descriptions of the dreams charged to it since its last
\* activation, and it does not exceed the letter quota of the plan when the
\* quota is set.
C3_LettersUsedIsSum ==
  \A s \in userPlans :
    /\ s.lettersUsed = SumLetters(ledger[<<s.userId, s.planId>>])
    /\ PlanOf(s.planId).letterQuota # NULL =>
         s.lettersUsed <= PlanOf(s.planId).letterQuota

\* two dreams with a surrogate pair each were charged to a subscription and
\* fill its quota exactly
C3_Witness ==
  \E s \in userPlans :
    /\ PlanOf(s.planId).letterQuota # NULL
    /\ s.lettersUsed = PlanOf(s.planId).letterQuota
    /\ CopiesIn(FiveLetters, ledger[<<s.userId, s.planId>>]) = 2

----------------------------------------------------------------------------
(* C4 *)

\* C4: in every reachable state with concurrent POST /dreams requests, the
\* counters of every subscription are within the ceilings of its plan:
\* lettersUsed <= letterQuota and audioMinutesUsed <= audioMinutesQuota
\* whenever the ceiling is set.
C4_CountersWithinCeilings ==
  \A s \in userPlans :
    /\ PlanOf(s.planId).letterQuota # NULL =>
         s.lettersUsed <= PlanOf(s.planId).letterQuota
    /\ PlanOf(s.planId).audioMinutesQuota # NULL =>
         s.audioMinutesUsed <= PlanOf(s.planId).audioMinutesQuota

----------------------------------------------------------------------------
(* C5 *)

\* the dreams of a user that a step adds
Created(userId) ==
  {d \in BagToSet(dreams') :
     d.dreamerId = userId /\ CopiesIn(d, dreams') > CopiesIn(d, dreams)}

\* the subscriptions of a user, before and after, that a step debits
Debits(userId) ==
  {p \in userPlans \X userPlans' :
     /\ p[1].userId = userId /\ p[2].userId = userId
     /\ p[2].planId = p[1].planId
     /\ \/ p[2].lettersUsed > p[1].lettersUsed
        \/ p[2].audioMinutesUsed > p[1].audioMinutesUsed}

\* C5: a step adds a dream of a non-privileged user if and only if it debits
\* a subscription of that user; it then adds one dream and debits one
\* subscription by the code point length of the description and by the audio
\* minutes of the request; a request that ends with a failure of a write
\* leaves the dreams and the counters as they were.
C5_AllOrNothing ==
  [][/\ \A u \in Users : ~Privileged(u) =>
          /\ Created(u) # {} <=> Debits(u) # {}
          /\ \A d \in Created(u) :
               /\ BagCardinality(dreams') = BagCardinality(dreams) + 1
               /\ Cardinality(Debits(u)) = 1
               /\ \E p \in Debits(u), r \in ReqIds :
                    /\ Handling(r) /\ Returns(r) /\ req[r].userId = u
                    /\ p[2].lettersUsed =
                         p[1].lettersUsed + CodePointLength(d.content)
                    /\ p[2].audioMinutesUsed =
                         p[1].audioMinutesUsed + req[r].audioMinutesRequested
     /\ \A r \in ReqIds :
          (Handling(r) /\ Returns(r) /\ resp'.status = 500)
          => UNCHANGED <<dreams, userPlans>>]_vars

\* the dream of a request of a non-privileged user is written inside the
\* transaction and not yet committed, after another dream of that user was
\* committed with its debit
C5_Witness ==
  \E r \in ReqIds :
    /\ req[r].pc = "txUpdate" /\ ~Privileged(req[r].userId)
    /\ req[r].createdDream # {}
    /\ \E d \in BagToSet(dreams) : d.dreamerId = req[r].userId
    /\ \E s \in userPlans : s.userId = req[r].userId /\ s.lettersUsed > 0

----------------------------------------------------------------------------
(* C6 *)

\* C6: under any interleaving of requests, lettersUsed of every subscription
\* is the sum of the letter counts of the debits applied to it since its
\* activation, each debit once, and every debit belongs to a dream that was
\* created.
C6_NoDebitLostOrDoubled ==
  \A s \in userPlans :
    LET charged == ledger[<<s.userId, s.planId>>]
    IN  /\ SumLetters(charged) = s.lettersUsed
        /\ \A content \in BagToSet(charged) :
             LET rows == {d \in BagToSet(dreams) :
                            d.dreamerId = s.userId /\ d.content = content}
             IN  BagCardinality([d \in rows |-> dreams[d]]) >= charged[content]

\* a request is about to debit a subscription that another request has
\* debited since the first one read it
C6_Witness ==
  \E r \in ReqIds :
    /\ req[r].pc = "txUpdate"
    /\ \E read \in req[r].subscription, s \in userPlans :
         /\ s.userId = read.userId /\ s.planId = read.planId
         /\ s.startedAt = read.startedAt
         /\ s.lettersUsed > read.lettersUsed
         /\ ledger[<<s.userId, s.planId>>] # EmptyBag

----------------------------------------------------------------------------
(* C7 *)

QuotaDenials == {"QUOTA_EXCEEDED", "AUDIO_QUOTA_EXCEEDED", "MAX_DREAMS_REACHED"}

\* C7: a request that is denied for quota leaves the counters and the dreams
\* unchanged, and a request whose description does not fit the letters left
\* in the effective subscription is denied with QUOTA_EXCEEDED.
C7_DenialChangesNothing ==
  [][\A r \in ReqIds :
       /\ (Returns(r) /\ resp'.code \in QuotaDenials) =>
            /\ resp'.status = 403
            /\ UNCHANGED <<dreams, userPlans, ledger>>
       /\ ( /\ req[r].pc = "subscription" /\ Steps(r)
            /\ Effective(req[r].userId) # {}
            /\ \A s \in Effective(req[r].userId) :
                 /\ PlanOf(s.planId).letterQuota # NULL
                 /\ s.lettersUsed + CodePointLength(req[r].description)
                      > PlanOf(s.planId).letterQuota )
          => /\ Returns(r)
             /\ resp' = Response(403, "QUOTA_EXCEEDED")
             /\ UNCHANGED <<dreams, userPlans, ledger>>]_vars

\* a request was denied with QUOTA_EXCEEDED and the effective subscription
\* of a user has 7 letters used of a quota of 10
C7_Witness ==
  /\ resp = Response(403, "QUOTA_EXCEEDED")
  /\ \E u \in Users : \E s \in Effective(u) :
       /\ ~Privileged(u)
       /\ PlanOf(s.planId).letterQuota = 10 /\ s.lettersUsed = 7
       /\ \E d \in BagToSet(dreams) :
            d.dreamerId = u /\ CodePointLength(d.content) = 7

----------------------------------------------------------------------------
(* C8 *)

\* the effective subscriptions of a user all cap the dreams and the dreams
\* of the user created at or after their start already meet the cap
CapMet(userId) ==
  /\ Effective(userId) # {}
  /\ \A s \in Effective(userId) :
       /\ PlanOf(s.planId).maxDreams # NULL
       /\ DreamsSince(dreams, userId, s.startedAt) >= PlanOf(s.planId).maxDreams

\* the description and the audio of a request fit every effective subscription
FitsQuotas(r) ==
  \A s \in Effective(req[r].userId) :
    /\ PlanOf(s.planId).letterQuota # NULL =>
         s.lettersUsed + CodePointLength(req[r].description)
           <= PlanOf(s.planId).letterQuota
    /\ PlanOf(s.planId).audioMinutesQuota # NULL =>
         s.audioMinutesUsed + req[r].audioMinutesRequested
           <= PlanOf(s.planId).audioMinutesQuota

\* C8 as stated: for every non-privileged user and every effective
\* subscription of a plan with maxDreams = M, the user has at most M dreams
\* created at or after the start of the subscription.
C8_NeverMoreThanMaxDreams ==
  \A u \in Users : ~Privileged(u) =>
    \A s \in Effective(u) :
      PlanOf(s.planId).maxDreams # NULL =>
        DreamsSince(dreams, u, s.startedAt) <= PlanOf(s.planId).maxDreams

\* C8 amended: a request of a non-privileged user whose effective plan caps
\* the dreams is denied whenever the cap is already met, with
\* MAX_DREAMS_REACHED when the letter and audio checks pass, and every
\* successful creation leaves at most M dreams of the user created at or
\* after the start of the subscription it is charged to.
C8_MaxDreamsPerCharge ==
  [][\A r \in ReqIds : (Handling(r) /\ ~Privileged(req[r].userId)) =>
       /\ CapMet(req[r].userId) =>
            /\ req[r].pc \in {"subscription", "count"}
            /\ Returns(r) =>
                 /\ resp'.status = 403
                 /\ UNCHANGED <<dreams, userPlans>>
                 /\ FitsQuotas(r) => resp'.code = "MAX_DREAMS_REACHED"
       /\ (Returns(r) /\ resp' = Response(201, "CREATED")) =>
            \A p \in Debits(req[r].userId) :
              PlanOf(p[2].planId).maxDreams # NULL =>
                DreamsSince(dreams', req[r].userId, p[2].startedAt)
                  <= PlanOf(p[2].planId).maxDreams]_vars

\* a request was denied with MAX_DREAMS_REACHED and the dreams of a user
\* created since the start of the effective subscription equal the cap
C8_Witness ==
  /\ resp = Response(403, "MAX_DREAMS_REACHED")
  /\ \E u \in Users : \E s \in Effective(u) :
       /\ ~Privileged(u)
       /\ PlanOf(s.planId).maxDreams # NULL
       /\ DreamsSince(dreams, u, s.startedAt) = PlanOf(s.planId).maxDreams

----------------------------------------------------------------------------
(* C9 *)

\* the number of payment rows with a reference
PaymentsWithReference(table, reference) ==
  LET rows == {p \in BagToSet(table) : p.reference = reference}
  IN  BagCardinality([p \in rows |-> table[p]])

\* the request answered last delivered an event of a type for a session under
\* the signature of Stripe
Delivered(c, type, session) ==
  /\ c.input.route = "POST /payments/webhook"
  /\ c.input.signature = "valid"
  /\ c.input.type = type
  /\ c.input.session = session.id

\* C9: once the checkout.session.completed event of a session has been
\* delivered, however many times, exactly one payment row has the session id
\* as reference.
C9_OnePaymentPerSession ==
  \A i \in DOMAIN sessions : \A session \in sessions[i] :
    Delivered(call, "checkout.session.completed", session)
    => PaymentsWithReference(payments, session.id) = 1

----------------------------------------------------------------------------
(* C11 *)

\* C11: a webhook request whose signature header is missing or does not verify
\* is rejected with status 400 (with 503, before the header is read, by a
\* server without a Stripe client), and it creates or changes no row of the
\* payments, user_plans or profiles tables.
C11_UnsignedWebhookRejected ==
  [][(/\ call'.input.route = "POST /payments/webhook"
      /\ call'.input.signature # "valid")
     => (/\ resp'.status = IF stripe THEN 400 ELSE 503
         /\ UNCHANGED <<payments, userPlans, profiles>>)]_vars

\* the completion of a stored checkout session of a user who still has a
\* profile was delivered under a signature that does not verify, and was
\* rejected with nothing recorded
C11_Witness ==
  /\ call.input.route = "POST /payments/webhook"
  /\ call.input.signature = "invalid"
  /\ call.input.type = "checkout.session.completed"
  /\ resp = Response(400, "SIGNATURE_VERIFICATION_FAILED")
  /\ \E session \in sessions[1] :
       /\ call.input.session = session.id
       /\ session.metadata.userId \in DOMAIN profiles
       /\ PaymentsWithReference(payments, session.id) = 0

----------------------------------------------------------------------------
(* C13 *)

\* the accounts a step creates, and the subscriptions it creates for one
Registered == DOMAIN profiles' \ DOMAIN profiles
SubscriptionsCreatedFor(u) == {s \in userPlans' \ userPlans : s.userId = u}
ActiveTrialPlans == {p \in plans : p.isTrial /\ p.isActive}

\* C13: a registration creates a trial subscription exactly when the registered
\* role is dreamer and an active plan flagged as trial exists; the subscription
\* has no usage, starts at the registration instant and expires
\* trialDurationDays later, whatever the plan's durationDays; without a trial
\* plan the registration succeeds (201) with no subscription.
C13_TrialOnRegistration ==
  [][\A u \in Registered :
       /\ resp'.status = 201
       /\ userPlans' \ userPlans = SubscriptionsCreatedFor(u)
       /\ SubscriptionsCreatedFor(u) # {}
            <=> (profiles'[u].role = "dreamer" /\ ActiveTrialPlans # {})
       /\ Cardinality(SubscriptionsCreatedFor(u)) <= 1
       /\ \A s \in SubscriptionsCreatedFor(u) :
            /\ s.lettersUsed = 0
            /\ s.audioMinutesUsed = 0
            /\ s.isActive
            /\ s.startedAt = now
            /\ \E p \in ActiveTrialPlans :
                 /\ p.id = s.planId
                 /\ s.expiresAt = now + p.trialDurationDays * Day]_vars

\* a dreamer registered on a later day holds a trial subscription that expires
\* trialDurationDays after its start, the trial plan having another durationDays
C13_Witness ==
  /\ resp.status = 201
  /\ call.input.route = "POST /auth/register"
  /\ \E u \in DOMAIN profiles \ Users, s \in userPlans, p \in plans :
       /\ profiles[u].role = "dreamer"
       /\ s.userId = u
       /\ s.planId = p.id
       /\ s.startedAt = now
       /\ now > 0
       /\ s.expiresAt = s.startedAt + p.trialDurationDays * Day
       /\ p.durationDays # p.trialDurationDays

----------------------------------------------------------------------------
(* C14 *)

\* the requests in flight that hold the result of the subscription lookup
PastLookup ==
  {r \in ReqIds : req[r].pc \in {"count", "tx", "txUpdate"} /\ ~req[r].isAdmin}

\* C14: the effective subscription of a user is the most recently started of
\* the user's rows that are active and whose expiry is absent or in the future:
\* the row a request holds after the lookup is such a row, an expired row is
\* never held whatever its isActive, and no request passes the lookup when no
\* row qualifies.
C14_EffectiveSubscription ==
  \A r \in PastLookup :
    /\ req[r].subscription # {}
    /\ \A s \in req[r].subscription :
         /\ s \in userPlans
         /\ s.userId = req[r].userId
         /\ s.isActive
         /\ s.expiresAt = NULL \/ s.expiresAt > now
         /\ \A o \in userPlans :
              (/\ o.userId = req[r].userId
               /\ o.isActive
               /\ (o.expiresAt = NULL \/ o.expiresAt > now))
              => o.startedAt <= s.startedAt

\* a request holds the older of two active rows of its user, the row started
\* later having expired
C14_Witness ==
  \E r \in PastLookup : \E s \in req[r].subscription, o \in userPlans :
    /\ o.userId = s.userId
    /\ o.isActive
    /\ o.startedAt > s.startedAt
    /\ o.expiresAt # NULL
    /\ o.expiresAt <= now

----------------------------------------------------------------------------
(* C15 *)

\* a step that activates a subscription: a successful POST /plans/subscribe or
\* checkout-completed webhook, which records a payment
Activates(userId, planId) ==
  /\ resp'.status = 200
  /\ call'.input.route \in {"POST /plans/subscribe", "POST /payments/webhook"}
  /\ \E payment \in BagToSet(payments') :
       /\ payment.userId = userId
       /\ payment.planId = planId
       /\ payments' = payments (+) SetToBag({payment})

\* C15: re-subscribing to a plan, by POST /plans/subscribe or by the webhook,
\* resets both usage counters and the counting window: after the activation the
\* row has lettersUsed = 0 and audioMinutesUsed = 0, startedAt is the instant of
\* the activation and expiresAt that instant plus the plan's duration.
C15_ResubscriptionResetsWindow ==
  [][\A userId \in Users, planId \in PlanIds :
       Activates(userId, planId)
       => \E s \in userPlans' :
            /\ s.userId = userId
            /\ s.planId = planId
            /\ s.lettersUsed = 0
            /\ s.audioMinutesUsed = 0
            /\ s.startedAt = now
            /\ s.expiresAt = now + PlanOf(planId).durationDays * Day]_vars

----------------------------------------------------------------------------
(* C16 *)

\* the request a step answers was a PATCH of a dream or of a request that
\* supplied an interpreter id
AssignsDreamInterpreter(c) ==
  c.input.route = "PATCH /dreams/:id" /\ Given(c.input.body, "interpreter_id")
AssignsRequestInterpreter(c) ==
  c.input.route = "PATCH /requests/:id" /\ Given(c.input.body, "interpreterId")

\* a step is the requester of the answered DELETE /profile/account losing the
\* rows of the account, which clears the interpreterId of what it interpreted
\* (ON DELETE SET NULL)
ClearedByDeletion(before, after) ==
  /\ call'.input.route = "DELETE /profile/account"
  /\ before.interpreterId = call'.userId
  /\ after.interpreterId = NoId

\* a PATCH of an existing dream or request that supplies an interpreter id is
\* answered 403 to a dreamer or an interpreter, both tables unchanged; carrying
\* only the id of a profile, by an admin or super_admin, it is answered 200 and
\* stores the interpreter
AssignmentAnswered ==
  /\ (/\ AssignsDreamInterpreter(call')
      /\ DreamRows(call'.input.id) # {})
     => IF Privileged(call'.userId)
          THEN (/\ DOMAIN call'.input.body = {"interpreter_id"}
                /\ call'.input.body.interpreter_id \in DOMAIN profiles)
               => /\ resp'.status = 200
                  /\ \E e \in BagToSet(dreams') :
                       /\ e.id = call'.input.id
                       /\ e.interpreterId = call'.input.body.interpreter_id
        ELSE resp'.status = 403 /\ UNCHANGED <<dreams, requests>>
  /\ (/\ AssignsRequestInterpreter(call')
      /\ RequestRows(call'.input.id) # {})
     => IF Privileged(call'.userId)
          THEN (/\ DOMAIN call'.input.body = {"interpreterId"}
                /\ call'.input.body.interpreterId \in DOMAIN profiles)
               => /\ resp'.status = 200
                  /\ \E p \in requests' :
                       /\ p.id = call'.input.id
                       /\ p.interpreterId = call'.input.body.interpreterId
        ELSE resp'.status = 403 /\ UNCHANGED <<dreams, requests>>

\* C16 as stated: the interpreterId of a dream or of a request changes only in
\* a step of a requester whose profile role is admin or super_admin; a PATCH
\* of an existing dream or request by a dreamer or an interpreter that supplies
\* an interpreter id is answered 403 and changes neither table; the same PATCH
\* carrying only the id of a profile, by an admin or super_admin, is answered
\* 200 and stores the interpreter.
C16_OnlyAdminsAssign ==
  [][/\ \A d \in BagToSet(dreams), e \in BagToSet(dreams') :
          (d.id = e.id /\ d.interpreterId # e.interpreterId)
          => Privileged(call'.userId)
     /\ \A q \in requests, p \in requests' :
          (q.id = p.id /\ q.interpreterId # p.interpreterId)
          => Privileged(call'.userId)
     /\ AssignmentAnswered]_vars

\* C16, amended: the interpreterId of a dream or of a request is set to a
\* profile only by a PATCH of a requester whose profile role is admin or
\* super_admin, and changes otherwise only to null, when the interpreter it
\* names deletes the account; a PATCH of an existing dream or request by a
\* dreamer or an interpreter that supplies an interpreter id is answered 403
\* and changes neither table; the same PATCH carrying only the id of a
\* profile, by an admin or super_admin, is answered 200 and stores the
\* interpreter.
C16_AssignedOnlyByAdmins ==
  [][/\ \A d \in BagToSet(dreams), e \in BagToSet(dreams') :
          (d.id = e.id /\ d.interpreterId # e.interpreterId)
          => \/ AssignsDreamInterpreter(call') /\ Privileged(call'.userId)
             \/ ClearedByDeletion(d, e)
     /\ \A q \in requests, p \in requests' :
          (q.id = p.id /\ q.interpreterId # p.interpreterId)
          => \/ AssignsRequestInterpreter(call') /\ Privileged(call'.userId)
             \/ ClearedByDeletion(q, p)
     /\ AssignmentAnswered]_vars

\* the owner of a dream supplied an interpreter id and was answered 403 after
\* an admin or super_admin had assigned u2 to the dream and to the request and
\* u2 had deleted the account, which left both without interpreter
C16_Witness ==
  /\ AssignsDreamInterpreter(call)
  /\ RoleOf(call.userId) = "dreamer"
  /\ resp.status = 403
  /\ "u2" \notin DOMAIN profiles
  /\ \E d \in BagToSet(dreams), q \in requests :
       /\ d.id = call.input.id
       /\ d.dreamerId = call.userId
       /\ d.interpreterId = NoId
       /\ d.status = "pending_interpretation"
       /\ q.interpreterId = NoId
       /\ q.status = "in_progress"

----------------------------------------------------------------------------
(* C17 *)

\* the dream a messages request names is stored and has no interpreter
NamesUnassignedDream(c) ==
  /\ c.input.route \in {"GET /messages", "POST /messages"}
  /\ \E d \in DreamRows(c.input.id) : d.interpreterId = NoId

\* a read, or a write that carries a content or a recording
WellFormed(c) ==
  Has(c.input, "content") =>
    \/ ~Falsy(c.input.content)
    \/ Has(c.input, "audio") /\ HasAudio(c.input.audio)

\* C17: for a dream with no assigned interpreter, reading the messages and
\* sending a message are answered 403 to a requester whose role is dreamer or
\* interpreter, nothing being stored, and are not answered 403 to a
\* super_admin.
C17_UnassignedDreamMessaging ==
  [][(NamesUnassignedDream(call') /\ WellFormed(call'))
     => /\ RoleOf(call'.userId) \in {"dreamer", "interpreter"}
             => resp'.status = 403 /\ UNCHANGED messages
        /\ RoleOf(call'.userId) = "super_admin"
             => resp'.status # 403]_vars

----------------------------------------------------------------------------
(* C18 *)

\* the request a chat request names is stored and has no interpreter
NamesUnassignedRequest(c) ==
  /\ c.input.route \in {"GET /chat", "POST /chat"}
  /\ \E q \in RequestRows(c.input.id) : q.interpreterId = NoId

\* C18: for a request with no assigned interpreter, reading the chat and
\* posting a chat message are answered 403 to every requester who is not
\* super_admin, and no chat message is created; a super_admin is answered 200 on
\* both, and the message it posts is stored.
C18_UnassignedRequestChat ==
  [][(NamesUnassignedRequest(call') /\ WellFormed(call'))
     => IF RoleOf(call'.userId) # "super_admin"
          THEN resp'.status = 403 /\ UNCHANGED chatMessages
        ELSE /\ resp'.status = 200
             /\ call'.input.route = "POST /chat"
                  => \E c \in chatMessages' \ chatMessages :
                       /\ c.requestId = call'.input.id
                       /\ c.senderId = call'.userId]_vars

\* the dreamer of a request with no interpreter asked for its chat and was
\* answered 403, the chat holding only what a super_admin posted
C18_Witness ==
  /\ call.input.route = "GET /chat"
  /\ resp.status = 403
  /\ \E q \in RequestRows(call.input.id) :
       /\ q.interpreterId = NoId
       /\ q.dreamerId = call.userId
  /\ chatMessages # {}
  /\ \A c \in chatMessages : RoleOf(c.senderId) = "super_admin"

----------------------------------------------------------------------------
(* C19 *)

\* the routes over a dream, a message, a chat or a request
ProtectedRoutes ==
  {"PATCH /dreams/:id", "DELETE /dreams/:id", "PATCH /requests/:id",
   "GET /messages", "POST /messages", "DELETE /messages/:id",
   "GET /chat", "POST /chat"}

\* C19: a requester whose profile role is super_admin is never answered 403 on
\* a protected operation: updating or deleting a dream, reading, sending or
\* deleting a message, chatting, updating a request.
C19_SuperAdminNeverForbidden ==
  (/\ call.input.route \in ProtectedRoutes
   /\ RoleOf(call.userId) = "super_admin")
  => resp.status # 403

----------------------------------------------------------------------------
(* C20 *)

\* the requester of the request a step answers has the stored role super_admin
BySuperAdmin == RoleOf(call'.userId) = "super_admin"

Elevated(table) ==
  {u \in DOMAIN table : table[u].role \in {"admin", "super_admin"}}

\* C20: the role of a profile changes only in a step of a requester whose
\* stored role is super_admin; a profile created by registration has the role
\* dreamer or interpreter; and no step of another requester (register, login,
\* profile update, a rejected admin request) adds a profile to those with the
\* role admin or super_admin.
C20_RoleChangedOnlyBySuperAdmin ==
  [][/\ \A u \in DOMAIN profiles :
          profiles'[u].role # profiles[u].role => BySuperAdmin
     /\ \A u \in DOMAIN profiles' \ DOMAIN profiles :
          profiles'[u].role \in {"dreamer", "interpreter"}
     /\ ~BySuperAdmin => Elevated(profiles') \subseteq Elevated(profiles)]_vars

\* a user who was promoted, logged in and was demoted again asked for a
\* promotion with the token that still says super_admin, and was answered 403
C20_Witness ==
  /\ call.input.route = "POST /admin/make-super-admin"
  /\ resp.status = 403
  /\ RoleOf(call.userId) = "dreamer"
  /\ generateToken(call.userId, "super_admin") \in tokens
  /\ \E u \in DOMAIN profiles \ Users : profiles[u].role = "interpreter"

----------------------------------------------------------------------------
(* C21 *)

\* the routes of the content handlers
ContentRoutes == AuthenticatedRoutes \cup {"GET /comments"}

\* the stored entities
Stored ==
  <<profiles, userPlans, dreams, payments, requests, messages, chatMessages,
    comments>>

\* C21: a request to a content route that carries no token, or a token that
\* does not verify, is answered 401 and changes no stored entity.
C21_ContentBehindAuthentication ==
  [][(/\ call'.input.route \in ContentRoutes
      /\ Has(call'.input, "carried")
      /\ requireAuth(call'.input.carried) = {})
     => (resp'.status = 401 /\ UNCHANGED Stored)]_vars

----------------------------------------------------------------------------
(* C22 *)

\* C22: a registration whose email belongs to a user when its transaction
\* runs, as that of the loser of two concurrent registrations with one email
\* does, is answered 409 and creates nothing.
C22_DuplicateEmailConflict ==
  [][\A r \in ReqIds :
       (req[r].pc = "register.transaction" /\ Returns(r)
          /\ EmailTaken(req[r].input.email))
       => (resp'.status = 409 /\ UNCHANGED <<profiles, userPlans>>)]_vars

----------------------------------------------------------------------------
(* C23 *)

\* who may write a field of a dream: interpreter_id an admin or a super_admin,
\* interpretation the assigned interpreter or a super_admin, status and notes
\* the assigned interpreter, the owning dreamer or a super_admin
MayWrite(userId, dream, field) ==
  LET role == RoleOf(userId)
      assigned == role = "interpreter" /\ dream.interpreterId = userId
      owner == role = "dreamer" /\ dream.dreamerId = userId
  IN  CASE field = "interpreter_id" -> role \in {"admin", "super_admin"}
        [] field = "interpretation" -> role = "super_admin" \/ assigned
        [] OTHER -> role = "super_admin" \/ assigned \/ owner

\* the fields a body supplies, of those PATCH /dreams/:id takes
Supplied(body) == DOMAIN body \cap DreamUpdates

\* C23: a PATCH /dreams/:id request that supplies a field its requester may
\* not write is answered 403 and changes no field of the dream, whatever other
\* fields it supplies.
C23_NoPartialUpdate ==
  [][(/\ call'.input.route = "PATCH /dreams/:id"
      /\ \E dream \in DreamRows(call'.input.id) :
           \E field \in Supplied(call'.input.body) :
             ~MayWrite(call'.userId, dream, field))
     => (resp'.status = 403 /\ UNCHANGED dreams)]_vars

----------------------------------------------------------------------------
(* C24 *)

AssignedInterpreter(userId, dream) ==
  RoleOf(userId) = "interpreter" /\ dream.interpreterId = userId

\* the request a step answers was a PATCH of the stored dream by a requester
\* who is neither its assigned interpreter nor a super_admin
PatchByOther(dream) ==
  /\ call'.input.route = "PATCH /dreams/:id"
  /\ call'.input.id = 1
  /\ ~AssignedInterpreter(call'.userId, dream)
  /\ RoleOf(call'.userId) # "super_admin"

\* the interpretation of the stored dream changes only by a request of the
\* interpreter assigned to it or of a super_admin
InterpretationByWriters(dream) ==
  (\E after \in BagToSet(dreams') :
     after.id = 1 /\ after.interpretation # dream.interpretation)
  => /\ call'.input.route = "PATCH /dreams/:id"
     /\ \/ AssignedInterpreter(call'.userId, dream)
        \/ RoleOf(call'.userId) = "super_admin"

\* the request a step answers was answered 200 and left the interpreter it
\* names assigned
Assigned ==
  /\ resp'.status = 200
  /\ \A after \in BagToSet(dreams') :
       after.interpreterId = call'.input.body.interpreter_id

----------------------------------------------------------------------------
(* C25 *)

\* the stage of a status in the lifecycle
\* new -> pending_inquiry / pending_interpretation -> interpreted / returned
Stage(status) ==
  CASE status = "new" -> 0
    [] status \in {"pending_inquiry", "pending_interpretation"} -> 1
    [] status \in {"interpreted", "returned"} -> 2

\* C25: no PATCH /dreams/:id moves the status of a dream to an earlier stage
\* of the lifecycle.
C25_StatusNeverMovesBack ==
  [][\A dream \in BagToSet(dreams), after \in BagToSet(dreams') :
       dream.id = after.id => Stage(after.status) >= Stage(dream.status)]_vars

----------------------------------------------------------------------------
(* C26 *)

\* the routes of the admin router that change a profile, open to super_admin
SuperAdminRoutes == {"POST /admin/make-super-admin", "PATCH /admin/users/:id"}

\* C26: a request to a super_admin route is refused with 403 exactly when the
\* role in its token is not super_admin, whatever the stored role of the
\* requester has become since the token was issued.
C26_TokenRoleDecides ==
  [][(call'.input.route \in SuperAdminRoutes /\ resp'.status # 400)
     => (resp'.status = 403 <=> call'.input.role # "super_admin")]_vars

----------------------------------------------------------------------------
(* C27 *)

\* C27: once a signed payment_intent.payment_failed event is acknowledged a
\* record of the failure is stored, and the subscriptions with their usage
\* counters are as before; a signed event of an unrecognized type is
\* acknowledged and changes nothing that is stored.
C27_PaymentFailureRecorded ==
  [][\A i \in DOMAIN sessions : \A session \in sessions[i] :
       /\ (Delivered(call', "payment_intent.payment_failed", session)
             /\ resp'.status = 200)
          => /\ \E payment \in BagToSet(payments') : payment.status = "failed"
             /\ UNCHANGED userPlans
       /\ Delivered(call', "customer.created", session)
          => (resp'.status = 200 /\ UNCHANGED Stored)]_vars

----------------------------------------------------------------------------
(* C28 *)

\* the owner of a dream, its assigned interpreter, an admin or a super_admin
Participant(userId, dream) ==
  \/ dream.dreamerId = userId
  \/ dream.interpreterId = userId
  \/ RoleOf(userId) \in {"admin", "super_admin"}

\* C28: every dream whose content a response carries is a dream of which the
\* requester is the owner or the assigned interpreter, unless the requester
\* is an admin or a super_admin; and a request is created only for a dream
\* its requester owns.
C28_DreamConfidential ==
  [][/\ Has(resp', "dreams")
        => \A dream \in BagToSet(dreams) :
             dream.id \in resp'.dreams => Participant(call'.userId, dream)
     /\ \A created \in requests' \ requests :
          \A dream \in DreamRows(created.dreamId) :
            dream.dreamerId = created.dreamerId]_vars

----------------------------------------------------------------------------
(* C29 *)

\* C29: after a successful activation of a user for a plan, by POST
\* /plans/subscribe or by the checkout-completed webhook, the subscription
\* selected for the quota checks is the user's subscription to that plan and
\* the profile's currentPlanId is that plan, also when an older subscription
\* to another plan is still active and when the plan was subscribed before.
C29_CurrentPlanIsEffective ==
  [][\A userId \in Users, planId \in PlanIds :
       Activates(userId, planId)
       => /\ \E s \in getActiveSubscription(userId)' : s.planId = planId
          /\ profiles'[userId].currentPlanId = planId]_vars

----------------------------------------------------------------------------
(* C30 *)

\* the id of the dream a request addressed is the id of a stored dream
Addressed(id) == call'.input.id = id /\ DreamRows(id) # {}

\* C30: POST /dreams/:id/audio changes the audio attachment of a dream only
\* when the requester is the dream's owner or holds a privileged role (admin,
\* super_admin); a requester who is not a participant of the dream leaves its
\* audioUrl and audioDuration as they were, and an upload for a dream that
\* does not exist is answered 404 and changes nothing that is stored.
C30_AudioOnlyByOwner ==
  [][call'.input.route = "POST /dreams/:id/audio"
       => /\ \A dream \in BagToSet(dreams) :
               (/\ Addressed(dream.id)
                /\ dream.dreamerId # call'.userId
                /\ RoleOf(call'.userId) \notin {"admin", "super_admin"})
               => UNCHANGED dreams
          /\ (resp'.status # 400 /\ DreamRows(call'.input.id) = {})
               => (resp'.status = 404 /\ UNCHANGED <<Stored, uploads>>)]_vars

====
